---- MODULE Spec2Model ----
(***************************************************************************)
(* NTTB tournament scraper: the scrape / dedupe / persist pipeline of      *)
(* nttbscrape.py (NTTBTournamentScraper), its sqlite store (tables         *)
(* tournaments and scrape_log) and the retention sweep.                    *)
(*                                                                         *)
(* Text is modelled as a sequence of character codes (65 = 'A', 97 = 'a',  *)
(* 32 = ' ', 84 = 'T').  The ten characters 'YYYY-MM-DD' of a timestamp    *)
(* are one token, 1000 + day number, and the characters 'HH:MM:SS' are one *)
(* token, 2000 + hour, so that the order of two texts as sqlite compares   *)
(* them (byte by byte, a proper prefix first) is the lexicographic order   *)
(* of the token sequences.  The clock counts hours.                        *)
(***************************************************************************)
EXTENDS Integers, Sequences, FiniteSets, TLC

VARIABLES
    tournaments,      \* table tournaments, rows in insertion order
    scrape_log,       \* table scrape_log, rows in insertion order
    now,              \* the instant, in hours (UTC)
    utc_offset,       \* local time minus UTC on the host, in hours
    pc,               \* position of the scrape pass in progress
    driver,           \* the local variable driver of _scrape_with_selenium
    quit_calls,       \* calls of driver.quit() made by the current pass
    all_tournaments,  \* the local list all_tournaments of the current pass
    tournaments_data, \* self.tournaments_data
    result,           \* how _scrape_with_selenium ends: True, False or raise
    pending,          \* arguments of the _log_scrape_attempt call about to run
    in_handler,       \* TRUE inside the except block of scrape_tournaments
    faulted,          \* a driver-level fault occurred in the current pass
    passes,           \* calls of scrape_tournaments so far
    advances,         \* clock advances so far
    swept,            \* days_old of the sweep that just completed, else 0
    faults,           \* faults (driver, file or store) injected so far
    mode,             \* --mode of the main() run that made the current pass
    reply,            \* what the last TournamentClient call returned
    page_source,      \* the list items of the page the pass parsed last
    returned,         \* what the last call of scrape_tournaments returned
    txn,              \* the open transaction of _save_tournaments_to_db
    \* _scroll_to_load_all, run by itself
    heights,          \* the document heights the browser will report, in order
    last_height,      \* its local last_height
    scroll_attempts,  \* its local scroll_attempts
    scrolls,          \* scroll-to-bottom scripts executed
    scroll_pc,        \* its position: start, loop or done
    \* _handle_cookie_banner, run by itself
    outcomes,         \* per selector: what waiting for and clicking it does
    selector,         \* index of the selector the loop is at
    clicks,           \* the selectors whose element was clicked, in order
    handled,          \* its return value, None while it runs
    \* two overlapping runs of _save_tournaments_to_db
    writers,          \* per writer: position, candidates left, its own view
    \* get_tournament_stats, its three reads taken one by one
    stats_call,       \* position of the call and the lists read so far
    \* _wait_until_time and _wait_until_weekday of scheduled_tasks.py
    wait_now,         \* datetime.now() as read by the method
    wait_args,        \* the arguments weekday, hour, minute
    wait_seconds,     \* the duration handed to asyncio.sleep, in minutes
    wait_pc,          \* idle, called, or sleeping once the duration is known
    \* team_autocomplete and refresh_teams_cache of bot.py
    teams_cache,      \* _teams_cache
    last_cache_update,\* _last_cache_update, in seconds
    cache_clock,      \* datetime.now() of the bot, in seconds
    refresh_tasks,    \* refresh_teams_cache tasks created and not yet run
    choices           \* what the last team_autocomplete call returned

\* The variables of a scrape pass, the store and the query facade.
main_vars == <<tournaments, scrape_log, now, utc_offset, pc, driver, quit_calls,
               all_tournaments, tournaments_data, result, pending, in_handler,
               faulted, passes, advances, swept, faults, mode, reply,
               page_source, returned, txn>>

\* The variables of the lazy-load loop.
scroll_vars == <<heights, last_height, scroll_attempts, scrolls, scroll_pc>>

\* The variables of the consent handler.
banner_vars == <<outcomes, selector, clicks, handled>>

\* The variables of two overlapping writers.
overlap_vars == <<writers>>

\* The variables of a statistics call in progress.
stats_vars == <<stats_call>>

\* The variables of the scheduler's waits.
wait_vars == <<wait_now, wait_args, wait_seconds, wait_pc>>

\* The variables of the autocomplete cache.
cache_vars == <<teams_cache, last_cache_update, cache_clock, refresh_tasks,
                choices>>

\* The variables of the parts modelled by themselves, outside the pipeline.
side_vars == <<overlap_vars, stats_vars, wait_vars, cache_vars>>

vars == <<main_vars, scroll_vars, banner_vars, side_vars>>

----------------------------------------------------------------------------
(* Bounds of the model *)

MaxPasses == 2

MaxAdvances == 1

MaxFaults == 2

----------------------------------------------------------------------------
(* Text and time *)

\* SQL NULL / Python None, or a key missing from a candidate dict: no text
\* holds a negative code.
NULL == << -1 >>

\* Character codes of the letters the listings use.
Chr == [A |-> 65, B |-> 66, C |-> 67, a |-> 97, b |-> 98, c |-> 99]

\* str.lower() on one character code.
LowerChar(ch) == IF ch \in 65..90 THEN ch + 32 ELSE ch

\* str.lower()
Lower(s) == [i \in 1..Len(s) |-> LowerChar(s[i])]

RECURSIVE LStrip(_)
\* str.strip(), the left half: drops leading blanks.
LStrip(s) == IF s # <<>> /\ Head(s) = 32 THEN LStrip(Tail(s)) ELSE s

RECURSIVE RStrip(_)
\* str.strip(), the right half: drops trailing blanks.
RStrip(s) == IF s # <<>> /\ s[Len(s)] = 32 THEN RStrip(SubSeq(s, 1, Len(s) - 1)) ELSE s

\* str.strip()
Strip(s) == RStrip(LStrip(s))

RECURSIVE TextLess(_, _)
\* a < b for two texts under sqlite's BINARY collation: the first differing
\* character decides, and a proper prefix is less.
TextLess(a, b) ==
    IF b = <<>> THEN FALSE
    ELSE IF a = <<>> THEN TRUE
    ELSE IF Head(a) # Head(b) THEN Head(a) < Head(b)
    ELSE TextLess(Tail(a), Tail(b))

\* Calendar day and hour of day of an instant.
DayOf(t) == t \div 24
HourOf(t) == t % 24

\* sqlite's CURRENT_TIMESTAMP: UTC, 'YYYY-MM-DD HH:MM:SS' (a blank between).
CurrentTimestamp(t) == <<1000 + DayOf(t), 32, 2000 + HourOf(t)>>

\* datetime.now(): the naive local time of the host.
DatetimeNow(t, off) == t + off

\* datetime.isoformat(): 'YYYY-MM-DDTHH:MM:SS.ffffff' (a 'T' between).
IsoFormat(t) == <<1000 + DayOf(t), 84, 2000 + HourOf(t)>>

\* The datetime attribute of a <time> element of the site: an ISO-8601
\* calendar date 'YYYY-MM-DD'.
DateAttr(day) == <<1000 + day>>

\* time_element.get('datetime'): the attribute as the site wrote it, taken
\* verbatim; elem.suffix is what follows its calendar date (nothing on the
\* listings seen, a time of day and a UTC designator on others).
TimeAttr(elem, k) == DateAttr(elem.times[k]) \o elem.suffix

----------------------------------------------------------------------------
(* Record Extractor and Deduplicator *)

\* TRUE when one more fault may be injected.  A fault is the choice of the
\* environment: the step that faults sets its count.
MayFault == faults < MaxFaults

\* dict.get(key, ''): the text of a field, '' when the key is missing.
GetOrEmpty(v) == IF v = NULL THEN <<>> ELSE v

\* The date text shown for a list element: the text of its one <time>
\* element, or "date1 t/m date2" for two; the key is missing for none.
DisplayDate(times) ==
    IF Len(times) = 0 THEN NULL
    ELSE IF Len(times) = 1 THEN DateAttr(times[1])
    ELSE DateAttr(times[1]) \o <<32, 116, 47, 109, 32>> \o DateAttr(times[2])

\* The text 'closed' written to registration_status.
Closed == <<99, 108, 111, 115, 101, 100>>

\* Mutant of ExtractRegistrationInfo: a closed keyword sets the status only.
ExtractRegistrationInfo_no_override(reg, href) ==
    [ registration_available |-> (reg # "none"),
      registration_url       |-> IF reg # "none" THEN href ELSE NULL,
      registration_status    |-> IF reg = "closed" THEN Closed ELSE NULL ]

\* _extract_registration_info: the three keys it leaves in the candidate.  reg
\* tells what the first link whose text holds a registration keyword is: none
\* (no such link), open, or closed (its text also holds a closed keyword, as
\* 'Inschrijving gesloten' does); href is that link's target.
ExtractRegistrationInfo(reg, href) ==
    LET t0 == [ registration_available |-> FALSE,
                registration_url       |-> NULL,
                registration_status    |-> NULL ]
        t1 == IF reg # "none"
              THEN [t0 EXCEPT !.registration_available = TRUE,
                              !.registration_url = href]
              ELSE t0
    IN  IF reg = "closed"
        THEN [t1 EXCEPT !.registration_status = Closed,
                        !.registration_available = FALSE]
        ELSE t1

\* How far into the text of a list item the filter looks for 'cookie'.
CookieWindow == 100

\* Positions of the pipes (code 124) in a text.
Pipes(text) == {i \in 1..Len(text) : text[i] = 124}

\* Smallest element of a non-empty set of integers.
Min(S) == CHOOSE x \in S : \A y \in S : x <= y

\* The location taken from the text of the first subheading, as in
\* "NTTB | Rotterdam": location_text.split('|')[1].strip() when the text
\* holds a pipe (the part between the first pipe and the next one, or the
\* end), else the text itself; the key is missing without a subheading.
LocationOf(text) ==
    IF text = NULL THEN NULL
    ELSE IF Pipes(text) = {} THEN text
    ELSE LET first == Min(Pipes(text))
             later == {i \in Pipes(text) : i > first}
             stop  == IF later = {} THEN Len(text) + 1 ELSE Min(later)
         IN  Strip(SubSeq(text, first + 1, stop - 1))

\* _extract_tournament_details: the candidate dict of one list element.
\* elem.name, elem.location are the texts of the title and of the first
\* subheading, elem.times the days of the <time> elements of
\* the second subheading, elem.reg the kind of registration link found
\* (none, open, or closed: a link whose text also holds a closed keyword),
\* elem.tid the id= part of the title link.  int(time.time()) is the stamp:
\* it differs between two passes, as each pass sleeps at least 5 s before it
\* parses.
ExtractTournamentDetails(elem, index, source, stamp) ==
    LET start == IF Len(elem.times) >= 1 THEN TimeAttr(elem, 1) ELSE NULL
        end   == IF Len(elem.times) >= 2 THEN TimeAttr(elem, 2) ELSE NULL
        info  == ExtractRegistrationInfo(elem.reg, elem.tid)
    IN  [ id                     |-> <<source, index, stamp>>,
          extraction_method      |-> "nttb_scraper_v2",
          source                 |-> source,
          name                   |-> elem.name,
          tournament_url         |-> elem.tid,
          tournament_id          |-> elem.tid,
          location               |-> LocationOf(elem.location),
          date                   |-> DisplayDate(elem.times),
          start_date             |-> start,
          end_date               |-> end,
          categories             |-> elem.categories,
          registration_available |-> info.registration_available,
          registration_url       |-> info.registration_url,
          registration_status    |-> info.registration_status,
          hash                   |-> elem.name \o GetOrEmpty(start)
                                               \o GetOrEmpty(LocationOf(elem.location)) ]

\* 'cookie' occurs in the first CookieWindow characters of the item's text
\* (elem.cookie_at is where its first occurrence starts, 0 for none).
CookieInHead(elem) ==
    elem.cookie_at # 0 /\ elem.cookie_at + 5 <= CookieWindow

\* Mutant of Qualifies: the checkbox test is missing.
Qualifies_with_checkbox(elem) ==
    /\ elem.title
    /\ ~elem.ad
    /\ ~CookieInHead(elem)

\* The filter of _parse_tournaments: a list item qualifies when it has a
\* title, no checkbox, no advertisement container and no early 'cookie'.
Qualifies(elem) ==
    /\ elem.title
    /\ ~elem.checkbox
    /\ ~elem.ad
    /\ ~CookieInHead(elem)

\* Mutant of ParseTournaments: the first element that raises ends the loop.
ParseTournaments_abort(page, source, stamp) ==
    LET elems == SelectSeq(page, Qualifies)
        cand(i) == ExtractTournamentDetails(elems[i], i - 1, source, stamp)
        RECURSIVE collect(_)
        collect(i) == IF i > Len(elems) \/ elems[i].raises THEN <<>>
                      ELSE IF elems[i].name # NULL /\ elems[i].name # <<>>
                      THEN <<cand(i)>> \o collect(i + 1)
                      ELSE collect(i + 1)
    IN  collect(1)

\* _parse_tournaments: the candidates of the qualifying list items of a page,
\* numbered from 0 in page order.  An element whose extraction raises
\* (elem.raises) yields None and is skipped, as is one without a name.
ParseTournaments(page, source, stamp) ==
    LET elems == SelectSeq(page, Qualifies)
        cand(i) == ExtractTournamentDetails(elems[i], i - 1, source, stamp)
        keep == {i \in 1..Len(elems) : /\ ~elems[i].raises
                                       /\ elems[i].name # NULL
                                       /\ elems[i].name # <<>>}
        RECURSIVE collect(_)
        collect(i) == IF i > Len(elems) THEN <<>>
                      ELSE IF i \in keep THEN <<cand(i)>> \o collect(i + 1)
                      ELSE collect(i + 1)
    IN  collect(1)

\* The key of _remove_duplicate_tournaments.
DedupKey(t) == << Lower(Strip(t.name)),
                  Strip(GetOrEmpty(t.start_date)),
                  Lower(Strip(GetOrEmpty(t.location))) >>

\* Mutant of RemoveDuplicateTournaments: the keys are compared as extracted.
RemoveDuplicateTournaments_exact(ts) ==
    LET key(t) == <<t.name, GetOrEmpty(t.start_date), GetOrEmpty(t.location)>>
        first(i) == \A j \in 1..(i - 1) : key(ts[j]) # key(ts[i])
        RECURSIVE collect(_)
        collect(i) == IF i > Len(ts) THEN <<>>
                      ELSE IF first(i) THEN <<ts[i]>> \o collect(i + 1)
                      ELSE collect(i + 1)
    IN  collect(1)

\* _remove_duplicate_tournaments: the first candidate of every key, in input
\* order.
RemoveDuplicateTournaments(ts) ==
    LET named(i) == ts[i].name # NULL /\ ts[i].name # <<>>
        first(i) == \A j \in 1..(i - 1) :
                        named(j) => DedupKey(ts[j]) # DedupKey(ts[i])
        RECURSIVE collect(_)
        collect(i) == IF i > Len(ts) THEN <<>>
                      ELSE IF named(i) /\ first(i) THEN <<ts[i]>> \o collect(i + 1)
                      ELSE collect(i + 1)
    IN  collect(1)

----------------------------------------------------------------------------
(* Persistence and reconciliation store *)

\* Mutant of ActiveRowExists: the lookup tests the flag the wrong way round.
ActiveRowExists_inactive(rows, h) ==
    \E i \in 1..Len(rows) : rows[i].hash = h /\ rows[i].is_active = 0

\* SELECT id FROM tournaments WHERE hash = ? AND is_active = 1 finds a row.
ActiveRowExists(rows, h) ==
    \E i \in 1..Len(rows) : rows[i].hash = h /\ rows[i].is_active = 1

\* Mutant of UpdatedRow: the update also takes the candidate's id.
UpdatedRow_new_id(row, t, at) ==
    [row EXCEPT !.id = t.id, !.name = t.name, !.location = t.location,
                !.scraped_at = CurrentTimestamp(at)]

\* UPDATE tournaments SET ... scraped_at = CURRENT_TIMESTAMP
\* WHERE hash = ? AND is_active = 1, applied to one row.
UpdatedRow(row, t, at) ==
    [row EXCEPT !.name = t.name, !.location = t.location, !.date = t.date,
                !.start_date = t.start_date, !.end_date = t.end_date,
                !.categories = t.categories,
                !.registration_available = t.registration_available,
                !.registration_url = t.registration_url,
                !.registration_deadline = NULL,
                !.registration_status = t.registration_status,
                !.tournament_url = t.tournament_url,
                !.source = t.source,
                !.extraction_method = t.extraction_method,
                !.scraped_at = CurrentTimestamp(at)]

\* Mutant of InsertedRow: the new row starts inactive.
InsertedRow_inactive(t, at) ==
    [ id |-> t.id, tournament_id |-> t.tournament_id, name |-> t.name,
      location |-> t.location, date |-> t.date, start_date |-> t.start_date,
      end_date |-> t.end_date, categories |-> t.categories,
      registration_available |-> t.registration_available,
      registration_url |-> t.registration_url, registration_deadline |-> NULL,
      registration_status |-> t.registration_status,
      tournament_url |-> t.tournament_url, source |-> t.source,
      extraction_method |-> t.extraction_method,
      scraped_at |-> CurrentTimestamp(at), hash |-> t.hash, is_active |-> 0 ]

\* INSERT INTO tournaments (...): the new row; scraped_at and is_active take
\* their column defaults.
InsertedRow(t, at) ==
    [ id                     |-> t.id,
      tournament_id          |-> t.tournament_id,
      name                   |-> t.name,
      location               |-> t.location,
      date                   |-> t.date,
      start_date             |-> t.start_date,
      end_date               |-> t.end_date,
      categories             |-> t.categories,
      registration_available |-> t.registration_available,
      registration_url       |-> t.registration_url,
      registration_deadline  |-> NULL,
      registration_status    |-> t.registration_status,
      tournament_url         |-> t.tournament_url,
      source                 |-> t.source,
      extraction_method      |-> t.extraction_method,
      scraped_at             |-> CurrentTimestamp(at),
      hash                   |-> t.hash,
      is_active              |-> 1 ]

\* Mutant of SaveOne: the insert runs also after an update.
SaveOne_also_insert(st, t, at) ==
    IF ~st.ok THEN st
    ELSE LET upd == [i \in 1..Len(st.rows) |->
                        IF st.rows[i].hash = t.hash /\ st.rows[i].is_active = 1
                        THEN UpdatedRow(st.rows[i], t, at) ELSE st.rows[i]]
         IN  IF \E i \in 1..Len(upd) : upd[i].id = t.id
             THEN [st EXCEPT !.ok = FALSE]
             ELSE [st EXCEPT !.rows = Append(upd, InsertedRow(t, at)),
                             !.saved_count = st.saved_count + 1]

\* Mutant of SaveOne: a retired row of the fingerprint is reactivated and
\* updated instead of a new row being inserted.
SaveOne_reactivate(st, t, at) ==
    IF ~st.ok THEN st
    ELSE IF \E i \in 1..Len(st.rows) : st.rows[i].hash = t.hash
    THEN [st EXCEPT !.rows =
            [i \in 1..Len(st.rows) |->
                IF st.rows[i].hash = t.hash
                THEN [UpdatedRow(st.rows[i], t, at) EXCEPT !.is_active = 1]
                ELSE st.rows[i]]]
    ELSE [st EXCEPT !.rows = Append(st.rows, InsertedRow(t, at)),
                    !.saved_count = st.saved_count + 1]

\* Mutant of SaveOne: the UPDATE matches on the hash alone, without
\* is_active = 1.
SaveOne_any_state(st, t, at) ==
    IF ~st.ok THEN st
    ELSE IF ActiveRowExists(st.rows, t.hash)
    THEN [st EXCEPT !.rows =
            [i \in 1..Len(st.rows) |->
                IF st.rows[i].hash = t.hash
                THEN UpdatedRow(st.rows[i], t, at) ELSE st.rows[i]]]
    ELSE IF \E i \in 1..Len(st.rows) : st.rows[i].id = t.id
    THEN [st EXCEPT !.ok = FALSE]
    ELSE [st EXCEPT !.rows = Append(st.rows, InsertedRow(t, at)),
                    !.saved_count = st.saved_count + 1]

\* One turn of the loop of _save_tournaments_to_db on the open transaction
\* st = [rows, saved_count, ok]: update the active rows of the candidate's
\* hash, or insert (an id already present violates the primary key and raises).
SaveOne(st, t, at) ==
    IF ~st.ok THEN st
    ELSE IF ActiveRowExists(st.rows, t.hash)
    THEN [st EXCEPT !.rows =
            [i \in 1..Len(st.rows) |->
                IF st.rows[i].hash = t.hash /\ st.rows[i].is_active = 1
                THEN UpdatedRow(st.rows[i], t, at) ELSE st.rows[i]]]
    ELSE IF \E i \in 1..Len(st.rows) : st.rows[i].id = t.id
    THEN [st EXCEPT !.ok = FALSE]
    ELSE [st EXCEPT !.rows = Append(st.rows, InsertedRow(t, at)),
                    !.saved_count = st.saved_count + 1]

RECURSIVE SaveLoop(_, _, _)
\* The for loop of _save_tournaments_to_db.
SaveLoop(st, ts, at) ==
    IF ts = <<>> THEN st ELSE SaveLoop(SaveOne(st, Head(ts), at), Tail(ts), at)

\* Mutant of SaveTournamentsToDb: rows whose hash the pass did not observe
\* are deactivated.
SaveTournamentsToDb_absent(rows, ts, at) ==
    LET end == SaveLoop([rows |-> rows, saved_count |-> 0, ok |-> TRUE], ts, at)
        seen == {ts[k].hash : k \in 1..Len(ts)}
    IN  IF end.ok
        THEN [end EXCEPT !.rows =
                [i \in 1..Len(end.rows) |->
                    IF end.rows[i].hash \in seen THEN end.rows[i]
                    ELSE [end.rows[i] EXCEPT !.is_active = 0]]]
        ELSE [rows |-> rows, saved_count |-> 0, ok |-> FALSE]

\* _save_tournaments_to_db on table rows: the committed table and the count
\* returned; when a statement raises nothing is committed.
SaveTournamentsToDb(rows, ts, at) ==
    LET end == SaveLoop([rows |-> rows, saved_count |-> 0, ok |-> TRUE], ts, at)
    IN  IF end.ok THEN end ELSE [rows |-> rows, saved_count |-> 0, ok |-> FALSE]

\* The WHERE clause of cleanup_old_tournaments for one row; cutoff and
\* one_week_ago are the isoformat texts bound to it.
SweepMatches(row, cutoff, one_week_ago) ==
    \/ TextLess(row.scraped_at, cutoff)
    \/ (row.end_date # NULL /\ TextLess(row.end_date, one_week_ago))
    \/ (row.start_date # NULL /\ row.end_date = NULL
            /\ TextLess(row.start_date, one_week_ago))

\* Mutant of CleanupOldTournaments: the matching rows are deleted.
CleanupOldTournaments_delete(rows, days_old, t, off) ==
    LET cutoff == IsoFormat(DatetimeNow(t, off) - days_old * 24)
        one_week_ago == IsoFormat(DatetimeNow(t, off) - 7 * 24)
        keep(row) == ~SweepMatches(row, cutoff, one_week_ago)
    IN  SelectSeq(rows, keep)

\* cleanup_old_tournaments(days_old) run at instant t on a host at offset off.
CleanupOldTournaments(rows, days_old, t, off) ==
    LET cutoff_date  == DatetimeNow(t, off) - days_old * 24
        one_week_ago == IsoFormat(DatetimeNow(t, off) - 7 * 24)
    IN  [i \in 1..Len(rows) |->
            IF SweepMatches(rows[i], IsoFormat(cutoff_date), one_week_ago)
            THEN [rows[i] EXCEPT !.is_active = 0] ELSE rows[i]]

----------------------------------------------------------------------------
(* The source site: list elements and the pages a tab may render *)

\* Python's None for a value that is no text.
None == "None"

\* A list item with a title and nothing that the filter rejects.
Plain(name, location, times, reg, tid, categories) ==
    [ title |-> TRUE, checkbox |-> FALSE, ad |-> FALSE, cookie_at |-> 0,
      raises |-> FALSE, name |-> name, location |-> location, times |-> times,
      suffix |-> <<>>, reg |-> reg, tid |-> tid, categories |-> categories ]

AB_C == Plain(<<Chr.A, Chr.B>>, <<Chr.C>>, <<>>, "none", <<49>>, NULL)

A_BC == Plain(<<Chr.A>>, <<Chr.B, Chr.C>>, <<>>, "open", <<50>>, <<Chr.a>>)

A_BC_closed == [A_BC EXCEPT !.reg = "closed"]

ab_C == Plain(<<Chr.a, Chr.b>>, <<Chr.C>>, <<>>, "none", <<49>>, NULL)

\* Started on day 10, no end date; subheading "A|C|B"; its text mentions
\* 'cookie' from character 96 on.
Started10 == [Plain(<<Chr.A>>, <<Chr.A, 124, Chr.C, 124, Chr.B>>, <<10>>,
                    "none", <<51>>, NULL) EXCEPT !.cookie_at = 96]

\* Ran from day 15 to day 17; subheading "B | C".
Ended17 == Plain(<<Chr.B>>, <<Chr.B, 32, 124, 32, Chr.C>>, <<15, 17>>,
                 "closed", <<52>>, NULL)

\* Starts on day 31, no location subheading.
Starts31 == Plain(<<Chr.C>>, NULL, <<31>>, "open", <<53>>, NULL)

\* A consent entry: a title and a checkbox.
CheckboxItem == [Plain(<<Chr.B>>, <<Chr.C>>, <<>>, "none", <<54>>, NULL)
                    EXCEPT !.checkbox = TRUE]

\* A titled item inside an advertisement container.
AdItem == [Plain(<<Chr.C>>, <<Chr.C>>, <<>>, "none", <<55>>, NULL)
              EXCEPT !.ad = TRUE]

\* A titled item whose text starts with a cookie notice.
CookieItem == [Plain(<<Chr.C>>, <<Chr.A>>, <<>>, "none", <<56>>, NULL)
                  EXCEPT !.cookie_at = 10]

\* A list item without a title element.
NoTitleItem == [Plain(NULL, <<Chr.A>>, <<>>, "none", <<57>>, NULL)
                   EXCEPT !.title = FALSE]

\* A title element without the name span.
NamelessItem == Plain(NULL, <<Chr.B>>, <<>>, "none", <<58>>, NULL)

\* An element on which the extraction raises.
RaisingItem == [Plain(<<Chr.B>>, <<Chr.A>>, <<>>, "none", <<59>>, NULL)
                   EXCEPT !.raises = TRUE]

\* What the "upcoming" tab may render, as its list items.
UpcomingPages == { <<AB_C, CheckboxItem, A_BC>>,
                   <<RaisingItem, NoTitleItem, Starts31, RaisingItem,
                     A_BC_closed, NamelessItem>> }

\* What the "recent" tab may render.
RecentPages == { <<>>, <<ab_C, CookieItem, Ended17, AdItem, CheckboxItem,
                       Started10>> }

\* Local time minus UTC of the hosts considered: US Pacific, Amsterdam.
UtcOffsets == {-8, 1}

\* Hours the clock may advance between two operations.
Deltas == {335, 340}

\* The days_old arguments cleanup_old_tournaments is called with.
DaysOld == {14}

\* The --mode choices of main(): both call scrape_tournaments.
Modes == {"scrape", "test"}

\* The days arguments get_upcoming_tournaments is called with.
UpcomingDays == {10, 30}

\* The days argument get_tournament_stats passes to get_upcoming_tournaments.
StatsDays == 30

\* The texts search_tournaments is called with: 'a' and 'U'.
Queries == { <<97>>, <<85>> }

\* No TournamentClient call has returned since the store last changed.
\* readable: every read of the store by the call succeeded; unreadable: none;
\* raised: the call ended with an exception instead of a value.
NoReply == [op |-> "none", days |-> 0, query |-> <<>>, readable |-> TRUE,
            unreadable |-> FALSE, raised |-> FALSE, value |-> <<>>,
            stats |-> [total |-> 0, upcoming_30_days |-> 0,
                       with_registration |-> 0]]


----------------------------------------------------------------------------
(* Initial state: a fresh database (setup_database) at 00:00 UTC of day 20 *)

\* No transaction of _save_tournaments_to_db is open.
NoTxn == [rows |-> <<>>, todo |-> <<>>, saved_count |-> 0, open |-> FALSE]

\* The arguments of a _log_scrape_attempt call, when none is about to run.
NoCall == [tournaments_found |-> 0, status |-> None]

\* A fresh database and no pass, call or transaction in progress.
MainInit ==
    /\ tournaments = <<>>
    /\ scrape_log = <<>>
    /\ now = 20 * 24
    /\ utc_offset \in UtcOffsets
    /\ pc = "idle"
    /\ driver = None
    /\ quit_calls = 0
    /\ all_tournaments = <<>>
    /\ tournaments_data = <<>>
    /\ result = None
    /\ pending = NoCall
    /\ in_handler = FALSE
    /\ faulted = FALSE
    /\ passes = 0
    /\ advances = 0
    /\ swept = 0
    /\ faults = 0
    /\ mode = None
    /\ reply = NoReply
    /\ page_source = <<>>
    /\ returned = None
    /\ txn = NoTxn

\* No lazy-load loop is running.
ScrollIdle ==
    /\ heights = <<>>
    /\ last_height = 0
    /\ scroll_attempts = 0
    /\ scrolls = 0
    /\ scroll_pc = "idle"

\* No consent handler is running.
BannerIdle ==
    /\ outcomes = <<>>
    /\ selector = 0
    /\ clicks = <<>>
    /\ handled = None

\* No writers overlap.
OverlapIdle == writers = <<>>

\* No statistics call is in progress.
NoStats == [pc |-> "idle", all |-> <<>>, upcoming |-> <<>>,
            with_registration |-> <<>>]

StatsIdle == stats_call = NoStats

\* No wait is being computed.
WaitIdle ==
    /\ wait_now = None
    /\ wait_args = None
    /\ wait_seconds = 0
    /\ wait_pc = "idle"

\* _last_cache_update = None
NeverUpdated == -1

\* No team_autocomplete call has returned since the clock last moved.
NoChoices == << -1 >>

\* The bot's module globals as bot.py defines them, and no call running.
CacheIdle ==
    /\ teams_cache = <<>>
    /\ last_cache_update = NeverUpdated
    /\ cache_clock = 0
    /\ refresh_tasks = 0
    /\ choices = NoChoices

SideIdle == OverlapIdle /\ StatsIdle /\ WaitIdle /\ CacheIdle

Init == MainInit /\ ScrollIdle /\ BannerIdle /\ SideIdle

----------------------------------------------------------------------------
(* A scrape pass: scrape_tournaments and _scrape_with_selenium *)

\* scrape_tournaments is called and _scrape_with_selenium starts:
\* webdriver.Chrome() returns a session or raises WebDriverException with
\* driver still None; then execute_script, driver.get(base_url) and
\* _handle_cookie_banner (which swallows every exception of its own) load the
\* page, or the driver raises WebDriverException, which _scrape_with_selenium
\* catches to return False.
StartPass ==
    /\ pc = "idle"
    /\ passes < MaxPasses
    /\ passes' = passes + 1
    /\ swept' = 0
    /\ mode' \in Modes
    /\ reply' = NoReply
    /\ \/ /\ driver' = "open"
          /\ pc' = "upcoming"
          /\ UNCHANGED <<result, faulted, faults>>
       \/ /\ MayFault
          /\ faults' = faults + 1
          /\ driver' = None
          /\ pc' = "finally"
          /\ result' = "False"
          /\ faulted' = TRUE
       \/ /\ MayFault
          /\ faults' = faults + 1
          /\ driver' = "open"
          /\ pc' = "finally"
          /\ result' = "False"
          /\ faulted' = TRUE
    /\ UNCHANGED <<tournaments, scrape_log, now, utc_offset, quit_calls,
                   all_tournaments, tournaments_data, pending, in_handler,
                   advances>>
    /\ UNCHANGED <<txn, scroll_vars, banner_vars, side_vars>>
    /\ page_source' = <<>> /\ returned' = None

\* _scrape_upcoming_tab: the parsed candidates of the rendered tab, or [] when
\* anything raised (its except Exception also catches a driver fault).
ScrapeUpcomingTab ==
    /\ pc = "upcoming"
    /\ pc' = "recent"
    /\ \/ /\ \E page \in UpcomingPages :
                /\ page_source' = page
                /\ all_tournaments' =
                      all_tournaments \o ParseTournaments(page, "upcoming", passes)
          /\ UNCHANGED <<faulted, faults>>
       \/ /\ MayFault
          /\ faults' = faults + 1
          /\ faulted' = TRUE
          /\ UNCHANGED <<all_tournaments, page_source>>
    /\ UNCHANGED <<tournaments, scrape_log, now, utc_offset, driver, quit_calls,
                   tournaments_data, result, pending, in_handler, passes,
                   advances, swept>>
    /\ UNCHANGED <<mode, reply>>
    /\ UNCHANGED <<txn, scroll_vars, banner_vars, side_vars>>
    /\ UNCHANGED returned

\* _scrape_recent_tab, likewise.
ScrapeRecentTab ==
    /\ pc = "recent"
    /\ pc' = "decide"
    /\ \/ /\ \E page \in RecentPages :
                /\ page_source' = page
                /\ all_tournaments' =
                      all_tournaments \o ParseTournaments(page, "recent", passes)
          /\ UNCHANGED <<faulted, faults>>
       \/ /\ MayFault
          /\ faults' = faults + 1
          /\ faulted' = TRUE
          /\ UNCHANGED <<all_tournaments, page_source>>
    /\ UNCHANGED <<tournaments, scrape_log, now, utc_offset, driver, quit_calls,
                   tournaments_data, result, pending, in_handler, passes,
                   advances, swept>>
    /\ UNCHANGED <<mode, reply>>
    /\ UNCHANGED <<txn, scroll_vars, banner_vars, side_vars>>
    /\ UNCHANGED returned

\* The branch of scrape_tournaments that the outcome of
\* _scrape_with_selenium selects.
Dispatch(res) ==
    CASE res = "True"  -> /\ pc' = "persist"
                          /\ UNCHANGED <<pending, in_handler>>
      [] res = "False" -> /\ pc' = "log"
                          /\ pending' = [tournaments_found |-> 0, status |-> "failed"]
                          /\ UNCHANGED in_handler
      [] OTHER         -> /\ pc' = "log"
                          /\ pending' = [tournaments_found |-> 0, status |-> "error"]
                          /\ in_handler' = TRUE

\* Mutant of Quit: the session is released only when candidates were found.
Quit_on_success ==
    IF driver # None /\ all_tournaments # <<>>
    THEN driver' = "quit" /\ quit_calls' = quit_calls + 1
    ELSE UNCHANGED <<driver, quit_calls>>

\* The finally clause: driver.quit() if a session was started.
Quit ==
    IF driver # None
    THEN driver' = "quit" /\ quit_calls' = quit_calls + 1
    ELSE UNCHANGED <<driver, quit_calls>>

\* The end of the try block, with the finally clause.  With candidates:
\* deduplicate into self.tournaments_data and return True.  With none: write
\* debug_page.html and return False (driver.page_source raising
\* WebDriverException is caught and returns False as well; open() raising
\* OSError leaves the method).
Decide ==
    /\ pc = "decide"
    /\ Quit
    /\ all_tournaments' = <<>>
    /\ IF all_tournaments # <<>>
       THEN /\ tournaments_data' = RemoveDuplicateTournaments(all_tournaments)
            /\ result' = "True"
            /\ Dispatch("True")
            /\ UNCHANGED <<faulted, faults>>
       ELSE /\ UNCHANGED tournaments_data
            /\ \/ /\ result' = "False"
                  /\ Dispatch("False")
                  /\ UNCHANGED <<faulted, faults>>
               \/ /\ MayFault
                  /\ faults' = faults + 1
                  /\ result' = "False"
                  /\ Dispatch("False")
                  /\ faulted' = TRUE
               \/ /\ MayFault
                  /\ faults' = faults + 1
                  /\ result' = "raise"
                  /\ Dispatch("raise")
                  /\ UNCHANGED faulted
    /\ UNCHANGED <<tournaments, scrape_log, now, utc_offset, passes, advances,
                   swept>>
    /\ UNCHANGED <<mode, reply>>
    /\ UNCHANGED <<txn, scroll_vars, banner_vars, side_vars>>
    /\ page_source' = <<>> /\ UNCHANGED returned

\* The finally clause after the except WebDriverException clause returned
\* False.
Finally ==
    /\ pc = "finally"
    /\ Quit
    /\ Dispatch(result)
    /\ UNCHANGED <<tournaments, scrape_log, now, utc_offset, all_tournaments,
                   tournaments_data, result, faulted, passes, advances, swept,
                   faults>>
    /\ UNCHANGED <<mode, reply>>
    /\ UNCHANGED <<txn, scroll_vars, banner_vars, side_vars>>
    /\ UNCHANGED <<page_source, returned>>

\* Mutant of Persist: a fault leaves the first candidate's write committed.
Persist_partial_commit ==
    /\ pc = "persist"
    /\ pc' = "log"
    /\ LET saved == SaveTournamentsToDb(tournaments, tournaments_data, now)
       IN  \/ /\ saved.ok
              /\ tournaments' = saved.rows
              /\ pending' = [tournaments_found |-> saved.saved_count,
                             status |-> "success"]
              /\ UNCHANGED <<in_handler, faults>>
           \/ /\ (~saved.ok) \/ MayFault
              /\ faults' = IF saved.ok THEN faults + 1 ELSE faults
              /\ tournaments' =
                    SaveTournamentsToDb(tournaments,
                                        SubSeq(tournaments_data, 1, 1), now).rows
              /\ pending' = [tournaments_found |-> 0, status |-> "error"]
              /\ in_handler' = TRUE
    /\ UNCHANGED <<scrape_log, now, utc_offset, driver, quit_calls,
                   all_tournaments, tournaments_data, result, faulted, passes,
                   advances, swept>>
    /\ UNCHANGED <<mode, reply>>
    /\ UNCHANGED <<txn, scroll_vars, banner_vars, side_vars>>
    /\ UNCHANGED <<page_source, returned>>

\* saved_count = self._save_tournaments_to_db(self.tournaments_data): the
\* transaction commits, or a statement raises (a store fault, or a primary
\* key violation) and nothing is committed.
Persist ==
    /\ pc = "persist"
    /\ pc' = "log"
    /\ LET saved == SaveTournamentsToDb(tournaments, tournaments_data, now)
       IN  \/ /\ saved.ok
              /\ tournaments' = saved.rows
              /\ pending' = [tournaments_found |-> saved.saved_count,
                             status |-> "success"]
              /\ UNCHANGED <<in_handler, faults>>
           \/ /\ (~saved.ok) \/ MayFault
              /\ faults' = IF saved.ok THEN faults + 1 ELSE faults
              /\ UNCHANGED tournaments
              /\ pending' = [tournaments_found |-> 0, status |-> "error"]
              /\ in_handler' = TRUE
    /\ UNCHANGED <<scrape_log, now, utc_offset, driver, quit_calls,
                   all_tournaments, tournaments_data, result, faulted, passes,
                   advances, swept>>
    /\ UNCHANGED <<mode, reply>>
    /\ UNCHANGED <<txn, scroll_vars, banner_vars, side_vars>>
    /\ UNCHANGED <<page_source, returned>>

\* The row _log_scrape_attempt(count, status, message) appends (its timestamp
\* and message are left out).
LoggedRow(p) ==
    [tournaments_found |-> p.tournaments_found, status |-> p.status]

\* scrape_tournaments returns or raises: its locals are gone.
Return ==
    /\ pc' = "idle"
    /\ pending' = NoCall
    /\ in_handler' = FALSE
    /\ result' = None
    /\ faulted' = FALSE
    /\ driver' = None
    /\ quit_calls' = 0
    /\ mode' = None

\* The _log_scrape_attempt call of the branch taken, and the return of
\* scrape_tournaments.  The insert may raise (a store fault): inside the try
\* block that enters the except block, which logs an error row instead;
\* inside the except block the exception leaves scrape_tournaments.
Log ==
    /\ pc = "log"
    /\ \/ /\ scrape_log' = Append(scrape_log, LoggedRow(pending))
          /\ Return
          /\ returned' = IF pending.status = "success" THEN "True" ELSE "False"
          /\ UNCHANGED faults
       \/ /\ MayFault
          /\ faults' = faults + 1
          /\ ~in_handler
          /\ in_handler' = TRUE
          /\ pending' = [tournaments_found |-> 0, status |-> "error"]
          /\ UNCHANGED <<scrape_log, pc, result, faulted, driver, quit_calls,
                         mode, returned>>
       \/ /\ MayFault
          /\ faults' = faults + 1
          /\ in_handler
          /\ Return
          /\ returned' = "raise"
          /\ UNCHANGED scrape_log
    /\ UNCHANGED <<tournaments, now, utc_offset, all_tournaments,
                   tournaments_data, passes, advances, swept>>
    /\ UNCHANGED reply
    /\ UNCHANGED <<txn, scroll_vars, banner_vars, side_vars>>
    /\ UNCHANGED page_source

----------------------------------------------------------------------------
(* Retention sweep and the clock *)

\* cleanup_old_tournaments(days_old), run between passes.
Sweep ==
    /\ pc = "idle"
    /\ \E days_old \in DaysOld :
          /\ tournaments' = CleanupOldTournaments(tournaments, days_old, now,
                                                  utc_offset)
          /\ swept' = days_old
    /\ UNCHANGED <<scrape_log, now, utc_offset, pc, driver, quit_calls,
                   all_tournaments, tournaments_data, result, pending,
                   in_handler, faulted, passes, advances, faults>>
    /\ reply' = NoReply /\ UNCHANGED mode
    /\ UNCHANGED <<txn, scroll_vars, banner_vars, side_vars>>
    /\ UNCHANGED <<page_source, returned>>

\* Time passes between two operations.
Advance ==
    /\ pc = "idle"
    /\ advances < MaxAdvances
    /\ \E d \in Deltas : now' = now + d
    /\ advances' = advances + 1
    /\ swept' = 0
    /\ UNCHANGED <<tournaments, scrape_log, utc_offset, pc, driver, quit_calls,
                   all_tournaments, tournaments_data, result, pending,
                   in_handler, faulted, passes, faults>>
    /\ reply' = NoReply /\ UNCHANGED mode
    /\ UNCHANGED <<txn, scroll_vars, banner_vars, side_vars>>
    /\ UNCHANGED <<page_source, returned>>

----------------------------------------------------------------------------
(* Query facade: TournamentClient of tournament_adapter.py *)

\* The texts "Unknown" and "TBA" that stand in for a missing value.
Unknown == <<85, 110, 107, 110, 111, 119, 110>>
TBA == <<84, 66, 65>>

\* Python's  v or default  on a nullable text column: None and '' are falsy.
OrDefault(v, default) == IF v = NULL \/ v = <<>> THEN default ELSE v

\* The Tournament object built from one selected row (the source column is
\* never empty: the extractor sets it on every candidate).
RowToTournament(row) ==
    [ id                     |-> row.id,
      name                   |-> row.name,
      location               |-> OrDefault(row.location, Unknown),
      date                   |-> OrDefault(row.date, TBA),
      start_date             |-> OrDefault(row.start_date, <<>>),
      end_date               |-> row.end_date,
      categories             |-> OrDefault(row.categories, <<>>),
      registration_available |-> row.registration_available,
      registration_url       |-> row.registration_url,
      registration_deadline  |-> row.registration_deadline,
      tournament_url         |-> row.tournament_url,
      source                 |-> row.source ]

\* a sorts strictly before b under ORDER BY start_date ASC: NULL first, then
\* texts in BINARY order.
SqlOrderLess(a, b) ==
    IF a = NULL THEN b # NULL
    ELSE IF b = NULL THEN FALSE
    ELSE TextLess(a, b)

RECURSIVE SortedOrders(_, _)
\* The orders in which sqlite may return the rows with indices S under
\* ORDER BY start_date ASC: SQL leaves the order of rows with equal keys open.
SortedOrders(rows, S) ==
    IF S = {} THEN { <<>> }
    ELSE LET mins == {i \in S : \A j \in S :
                        ~SqlOrderLess(rows[j].start_date, rows[i].start_date)}
         IN  UNION { { <<i>> \o p : p \in SortedOrders(rows, S \ {i}) } : i \in mins }

\* Mutant of GetAllTournamentsSync: a failed read is not caught into [].
GetAllTournamentsSync_uncaught(rows, readable) ==
    LET active == {i \in 1..Len(rows) : rows[i].is_active = 1}
    IN  { [k \in 1..Len(p) |-> RowToTournament(rows[p[k]])] :
               p \in SortedOrders(rows, active) }

\* _get_all_tournaments_sync: the lists it may return.  When the store cannot
\* be read (connect, execute or fetch raises) the except clauses return [].
GetAllTournamentsSync(rows, readable) ==
    IF ~readable THEN { <<>> }
    ELSE LET active == {i \in 1..Len(rows) : rows[i].is_active = 1}
         IN  { [k \in 1..Len(p) |-> RowToTournament(rows[p[k]])] :
                    p \in SortedOrders(rows, active) }

\* The token of a UTC offset '+HH:00' or '-HH:00' of h hours.
OffsetToken(h) == 3012 + h

IsDateToken(c) == c >= 1000 /\ c < 2000
IsTimeToken(c) == c >= 2000 /\ c < 3000
IsOffsetToken(c) == c >= 3000 /\ c < 3100

\* str.replace('Z', '+00:00')
ReplaceZ(d) == [k \in 1..Len(d) |-> IF d[k] = 90 THEN OffsetToken(0) ELSE d[k]]

\* datetime.fromisoformat on a start_date text: the naive instant of a
\* calendar date 'YYYY-MM-DD' (00:00 of that day) or of a date, a separator
\* and a time of day; an aware instant when a UTC offset follows the time;
\* ValueError for other text.
FromIsoFormat(d) ==
    IF Len(d) = 1 /\ IsDateToken(d[1])
    THEN [ok |-> TRUE, aware |-> FALSE, t |-> (d[1] - 1000) * 24]
    ELSE IF Len(d) = 3 /\ IsDateToken(d[1]) /\ d[2] < 1000 /\ IsTimeToken(d[3])
    THEN [ok |-> TRUE, aware |-> FALSE,
          t |-> (d[1] - 1000) * 24 + (d[3] - 2000)]
    ELSE IF /\ Len(d) = 4 /\ IsDateToken(d[1]) /\ d[2] < 1000
            /\ IsTimeToken(d[3]) /\ IsOffsetToken(d[4])
    THEN [ok |-> TRUE, aware |-> TRUE,
          t |-> (d[1] - 1000) * 24 + (d[3] - 2000) - (d[4] - 3012)]
    ELSE [ok |-> FALSE, aware |-> FALSE, t |-> 0]

\* now <= start <= cutoff raises TypeError for some record of the list: now
\* is naive, and comparing it with an aware start is an error that the
\* except (ValueError, AttributeError) clause does not catch.
UpcomingRaises(all) ==
    \E k \in 1..Len(all) :
        /\ all[k].start_date # <<>>
        /\ FromIsoFormat(ReplaceZ(all[k].start_date)).ok
        /\ FromIsoFormat(ReplaceZ(all[k].start_date)).aware

\* The loop of get_upcoming_tournaments over the list get_all_tournaments
\* returned, at instant t on a host at offset off.
UpcomingOf(all, days, t, off) ==
    LET now_   == DatetimeNow(t, off)
        cutoff == now_ + days * 24
        keep(x) == /\ x.start_date # <<>>
                   /\ LET start == FromIsoFormat(ReplaceZ(x.start_date))
                      IN  IF start.ok THEN now_ <= start.t /\ start.t <= cutoff
                          ELSE TRUE
    IN  SelectSeq(all, keep)

\* Python's  q in s  on two texts.
Contains(q, s) ==
    \E i \in 0..(Len(s) - Len(q)) : SubSeq(s, i + 1, i + Len(q)) = q

\* The list comprehension of search_tournaments.
SearchOf(all, query) ==
    LET query_lower == Lower(query)
        hit(x) == \/ Contains(query_lower, Lower(x.name))
                  \/ Contains(query_lower, Lower(x.location))
    IN  SelectSeq(all, hit)

\* Mutant of WithRegistrationOf: a record counts when it has a registration
\* link.
WithRegistrationOf_url(all) ==
    LET linked(x) == x.registration_url # NULL
    IN  SelectSeq(all, linked)

\* The list comprehension of get_tournaments_with_registration.
WithRegistrationOf(all) ==
    LET open(x) == x.registration_available
    IN  SelectSeq(all, open)

\* get_all_tournaments, called between two operations on the store.  reply
\* keeps what the call returned until the next operation on the store; a call
\* that follows another call without one in between would return the same, so
\* the calls start from a state without a reply.
GetAllTournaments ==
    /\ pc = "idle"
    /\ reply = NoReply
    /\ \E readable \in BOOLEAN :
       \E all \in GetAllTournamentsSync(tournaments, readable) :
          reply' = [NoReply EXCEPT !.op = "all", !.readable = readable,
                                   !.unreadable = ~readable,
                                   !.unreadable = ~readable,
                                   !.value = all]
    /\ UNCHANGED <<tournaments, scrape_log, now, utc_offset, pc, driver,
                   quit_calls, all_tournaments, tournaments_data, result,
                   pending, in_handler, faulted, passes, advances, swept,
                   faults, mode>>
    /\ UNCHANGED <<txn, scroll_vars, banner_vars, side_vars>>
    /\ UNCHANGED <<page_source, returned>>

\* get_upcoming_tournaments(days)
GetUpcomingTournaments ==
    /\ pc = "idle"
    /\ reply = NoReply
    /\ \E days \in UpcomingDays, readable \in BOOLEAN :
       \E all \in GetAllTournamentsSync(tournaments, readable) :
          reply' = [NoReply EXCEPT !.op = "upcoming", !.days = days,
                                   !.readable = readable,
                                   !.unreadable = ~readable,
                                   !.raised = UpcomingRaises(all),
                                   !.value =
                                      IF UpcomingRaises(all) THEN <<>>
                                      ELSE UpcomingOf(all, days, now, utc_offset)]
    /\ UNCHANGED <<tournaments, scrape_log, now, utc_offset, pc, driver,
                   quit_calls, all_tournaments, tournaments_data, result,
                   pending, in_handler, faulted, passes, advances, swept,
                   faults, mode>>
    /\ UNCHANGED <<txn, scroll_vars, banner_vars, side_vars>>
    /\ UNCHANGED <<page_source, returned>>

\* Mutant of SearchTournaments: the call logs itself in scrape_log.
SearchTournaments_logging ==
    /\ pc = "idle"
    /\ reply = NoReply
    /\ \E query \in Queries :
          reply' = [NoReply EXCEPT !.op = "search", !.query = query]
    /\ scrape_log' = Append(scrape_log, [tournaments_found |-> 0,
                                         status |-> "search"])
    /\ UNCHANGED <<tournaments, now, utc_offset, pc, driver,
                   quit_calls, all_tournaments, tournaments_data, result,
                   pending, in_handler, faulted, passes, advances, swept,
                   faults, mode>>
    /\ UNCHANGED <<txn, scroll_vars, banner_vars, side_vars>>
    /\ UNCHANGED <<page_source, returned>>

\* search_tournaments(query)
SearchTournaments ==
    /\ pc = "idle"
    /\ reply = NoReply
    /\ \E query \in Queries, readable \in BOOLEAN :
       \E all \in GetAllTournamentsSync(tournaments, readable) :
          reply' = [NoReply EXCEPT !.op = "search", !.query = query,
                                   !.readable = readable,
                                   !.unreadable = ~readable,
                                   !.value = SearchOf(all, query)]
    /\ UNCHANGED <<tournaments, scrape_log, now, utc_offset, pc, driver,
                   quit_calls, all_tournaments, tournaments_data, result,
                   pending, in_handler, faulted, passes, advances, swept,
                   faults, mode>>
    /\ UNCHANGED <<txn, scroll_vars, banner_vars, side_vars>>
    /\ UNCHANGED <<page_source, returned>>

\* get_tournament_stats: three reads of the store, each of which may fail by
\* itself; readable tells whether all three succeeded.
GetTournamentStats ==
    /\ pc = "idle"
    /\ reply = NoReply
    /\ \E r1, r2, r3 \in BOOLEAN :
       \E a1 \in GetAllTournamentsSync(tournaments, r1),
          a2 \in GetAllTournamentsSync(tournaments, r2),
          a3 \in GetAllTournamentsSync(tournaments, r3) :
          reply' = [NoReply EXCEPT
                       !.op = "stats", !.days = StatsDays,
                       !.readable = (r1 /\ r2 /\ r3),
                       !.unreadable = ~(r1 \/ r2 \/ r3),
                       !.stats = [total |-> Len(a1),
                                  upcoming_30_days |->
                                      Len(UpcomingOf(a2, StatsDays, now, utc_offset)),
                                  with_registration |->
                                      Len(WithRegistrationOf(a3))]]
    /\ UNCHANGED <<tournaments, scrape_log, now, utc_offset, pc, driver,
                   quit_calls, all_tournaments, tournaments_data, result,
                   pending, in_handler, faulted, passes, advances, swept,
                   faults, mode>>
    /\ UNCHANGED <<txn, scroll_vars, banner_vars, side_vars>>
    /\ UNCHANGED <<page_source, returned>>

Next ==
    \/ StartPass
    \/ ScrapeUpcomingTab
    \/ ScrapeRecentTab
    \/ Decide
    \/ Finally
    \/ Persist
    \/ Log
    \/ Sweep
    \/ Advance
    \/ GetAllTournaments
    \/ GetUpcomingTournaments
    \/ SearchTournaments
    \/ GetTournamentStats

Spec == Init /\ [][Next]_vars

----------------------------------------------------------------------------
(* The lazy-load loop _scroll_to_load_all, run by itself on the heights the
   browser reports: heights[1] answers the measurement before the loop and
   heights[k + 1] the measurement after the k-th scroll *)

\* max_scrolls
max_scrolls == 5

\* The measurements one run of the loop can ask for.
MaxReports == max_scrolls + 1

\* The document heights considered.
Heights == 1..3

ScrollInit ==
    /\ MainInit
    /\ SideIdle
    /\ BannerIdle
    /\ heights \in [1..MaxReports -> Heights]
    /\ last_height = 0
    /\ scroll_attempts = 0
    /\ scrolls = 0
    /\ scroll_pc = "start"

\* last_height = document.body.scrollHeight; scroll_attempts = 0
ScrollMeasure ==
    /\ scroll_pc = "start"
    /\ last_height' = heights[1]
    /\ scroll_attempts' = 0
    /\ scroll_pc' = "loop"
    /\ UNCHANGED <<heights, scrolls, main_vars, banner_vars, side_vars>>

\* Mutant of ScrollStep: an unchanged height does not end the loop.
ScrollStep_no_break ==
    /\ scroll_pc = "loop"
    /\ scroll_attempts < max_scrolls
    /\ scrolls' = scrolls + 1
    /\ last_height' = heights[scrolls + 2]
    /\ scroll_attempts' = scroll_attempts + 1
    /\ UNCHANGED <<heights, scroll_pc, main_vars, banner_vars, side_vars>>

\* One turn of the while loop: scroll to the bottom, measure, and break when
\* the height is the one measured before.
ScrollStep ==
    /\ scroll_pc = "loop"
    /\ scroll_attempts < max_scrolls
    /\ scrolls' = scrolls + 1
    /\ LET new_height == heights[scrolls + 2]
       IN  IF new_height = last_height
           THEN /\ scroll_pc' = "done"
                /\ UNCHANGED <<last_height, scroll_attempts>>
           ELSE /\ last_height' = new_height
                /\ scroll_attempts' = scroll_attempts + 1
                /\ UNCHANGED scroll_pc
    /\ UNCHANGED <<heights, main_vars, banner_vars, side_vars>>

\* The loop condition fails: scroll_attempts reached max_scrolls.
ScrollExit ==
    /\ scroll_pc = "loop"
    /\ scroll_attempts >= max_scrolls
    /\ scroll_pc' = "done"
    /\ UNCHANGED <<heights, last_height, scroll_attempts, scrolls, main_vars,
                   banner_vars, side_vars>>

ScrollNext ==
    \/ ScrollMeasure
    \/ ScrollStep
    \/ ScrollExit

\* The loop runs without waiting on anything but the browser's answers.
ScrollSpec == ScrollInit /\ [][ScrollNext]_vars /\ WF_vars(ScrollNext)

----------------------------------------------------------------------------
(* The consent handler _handle_cookie_banner, run by itself.  outcomes[k] is
   what the k-th selector of accept_selectors meets: "timeout" (no clickable
   element within the wait), "error" (the wait raises another exception),
   "intercepted" (an element is clickable, scrolling to it or click() raises)
   or "clicked" (click() returns) *)

\* len(accept_selectors): four widget ids, four text matches, two class
\* matches, in this order.
NumSelectors == 10

\* How many selectors find something other than a timeout, at most.
MaxFound == 2

Outcomes == {"timeout", "error", "intercepted", "clicked"}

BannerInit ==
    /\ MainInit
    /\ SideIdle
    /\ ScrollIdle
    /\ outcomes \in {o \in [1..NumSelectors -> Outcomes] :
                        Cardinality({k \in 1..NumSelectors : o[k] # "timeout"})
                            <= MaxFound}
    /\ selector = 1
    /\ clicks = <<>>
    /\ handled = None

\* One turn of the for loop: wait for the selector's element; TimeoutException
\* and any other Exception go on to the next selector; a click that returns
\* ends the handler with True.  clicks lists the selectors whose element was
\* found clickable.
TrySelector ==
    /\ handled = None
    /\ selector <= NumSelectors
    /\ \/ /\ outcomes[selector] \in {"timeout", "error"}
          /\ selector' = selector + 1
          /\ UNCHANGED <<clicks, handled>>
       \/ /\ outcomes[selector] = "intercepted"
          /\ clicks' = Append(clicks, selector)
          /\ selector' = selector + 1
          /\ UNCHANGED handled
       \/ /\ outcomes[selector] = "clicked"
          /\ clicks' = Append(clicks, selector)
          /\ handled' = "True"
          /\ UNCHANGED selector
    /\ UNCHANGED <<outcomes, main_vars, scroll_vars, side_vars>>

\* The selectors are exhausted: return False.
Exhausted ==
    /\ handled = None
    /\ selector > NumSelectors
    /\ handled' = "False"
    /\ UNCHANGED <<outcomes, selector, clicks, main_vars, scroll_vars, side_vars>>

BannerNext ==
    \/ TrySelector
    \/ Exhausted

\* The handler runs on bounded waits only.
BannerSpec == BannerInit /\ [][BannerNext]_vars /\ WF_vars(BannerNext)

----------------------------------------------------------------------------
(* A pass whose _save_tournaments_to_db runs statement by statement on its own
   connection while _get_all_tournaments_sync reads on another connection:
   tournaments is the committed table, which is what a second connection
   reads, and txn holds the table as the writing connection sees it *)

\* conn = sqlite3.connect(self.db_path); cursor = conn.cursor();
\* saved_count = 0.
BeginSave ==
    /\ pc = "persist"
    /\ pc' = "saving"
    /\ txn' = [rows |-> tournaments, todo |-> tournaments_data,
               saved_count |-> 0, open |-> TRUE]
    /\ UNCHANGED <<tournaments, scrape_log, now, utc_offset, driver,
                   quit_calls, all_tournaments, tournaments_data, result,
                   pending, in_handler, faulted, passes, advances, swept,
                   faults, mode, reply, page_source, returned>>
    /\ UNCHANGED <<scroll_vars, banner_vars, side_vars>>

\* Mutant of SaveNext: every statement is committed as it is executed.
SaveNext_autocommit ==
    /\ pc = "saving"
    /\ txn.todo # <<>>
    /\ LET st == SaveOne([rows |-> txn.rows, saved_count |-> txn.saved_count,
                          ok |-> TRUE], Head(txn.todo), now)
       IN  \/ /\ st.ok
              /\ txn' = [txn EXCEPT !.rows = st.rows,
                                    !.saved_count = st.saved_count,
                                    !.todo = Tail(txn.todo)]
              /\ tournaments' = st.rows
              /\ UNCHANGED <<pc, pending, in_handler, faults>>
           \/ /\ (~st.ok) \/ MayFault
              /\ faults' = IF st.ok THEN faults + 1 ELSE faults
              /\ txn' = NoTxn
              /\ pc' = "log"
              /\ pending' = [tournaments_found |-> 0, status |-> "error"]
              /\ in_handler' = TRUE
              /\ UNCHANGED tournaments
    /\ UNCHANGED <<scrape_log, now, utc_offset, driver, quit_calls,
                   all_tournaments, tournaments_data, result, faulted, passes,
                   advances, swept, mode, reply, page_source, returned>>
    /\ UNCHANGED <<scroll_vars, banner_vars, side_vars>>

\* One turn of the for loop: the SELECT and the UPDATE or INSERT of one
\* candidate, inside the connection's transaction.  A statement that raises
\* (a store fault, or a primary key violation) leaves the method before
\* conn.commit(): the transaction is rolled back.
SaveNext ==
    /\ pc = "saving"
    /\ txn.todo # <<>>
    /\ LET st == SaveOne([rows |-> txn.rows, saved_count |-> txn.saved_count,
                          ok |-> TRUE], Head(txn.todo), now)
       IN  \/ /\ st.ok
              /\ txn' = [txn EXCEPT !.rows = st.rows,
                                    !.saved_count = st.saved_count,
                                    !.todo = Tail(txn.todo)]
              /\ UNCHANGED <<pc, pending, in_handler, faults>>
           \/ /\ (~st.ok) \/ MayFault
              /\ faults' = IF st.ok THEN faults + 1 ELSE faults
              /\ txn' = NoTxn
              /\ pc' = "log"
              /\ pending' = [tournaments_found |-> 0, status |-> "error"]
              /\ in_handler' = TRUE
    /\ UNCHANGED <<tournaments, scrape_log, now, utc_offset, driver,
                   quit_calls, all_tournaments, tournaments_data, result,
                   faulted, passes, advances, swept, mode, reply, page_source,
                   returned>>
    /\ UNCHANGED <<scroll_vars, banner_vars, side_vars>>

\* conn.commit(); conn.close(); return saved_count: the writes of the loop
\* become the committed table in one step, or commit raises and none does.
CommitSave ==
    /\ pc = "saving"
    /\ txn.todo = <<>>
    /\ pc' = "log"
    /\ txn' = NoTxn
    /\ \/ /\ tournaments' = txn.rows
          /\ pending' = [tournaments_found |-> txn.saved_count,
                         status |-> "success"]
          /\ UNCHANGED <<in_handler, faults>>
       \/ /\ MayFault
          /\ faults' = faults + 1
          /\ UNCHANGED tournaments
          /\ pending' = [tournaments_found |-> 0, status |-> "error"]
          /\ in_handler' = TRUE
    /\ UNCHANGED <<scrape_log, now, utc_offset, driver, quit_calls,
                   all_tournaments, tournaments_data, result, faulted, passes,
                   advances, swept, mode, reply, page_source, returned>>
    /\ UNCHANGED <<scroll_vars, banner_vars, side_vars>>

\* get_all_tournaments on its own connection while the pass is saving or
\* about to log: the SELECT reads the committed table (or the store cannot be
\* read, e.g. it is locked, and the except clauses return []).
ConcurrentGetAll ==
    /\ pc \in {"saving", "log"}
    /\ reply = NoReply
    /\ \E readable \in BOOLEAN :
       \E all \in GetAllTournamentsSync(tournaments, readable) :
          reply' = [NoReply EXCEPT !.op = "all", !.readable = readable,
                                   !.unreadable = ~readable,
                                   !.value = all]
    /\ UNCHANGED <<tournaments, scrape_log, now, utc_offset, pc, driver,
                   quit_calls, all_tournaments, tournaments_data, result,
                   pending, in_handler, faulted, passes, advances, swept,
                   faults, mode>>
    /\ UNCHANGED <<txn, scroll_vars, banner_vars, side_vars>>
    /\ UNCHANGED <<page_source, returned>>

ConcurrentNext ==
    \/ StartPass
    \/ ScrapeUpcomingTab
    \/ ScrapeRecentTab
    \/ Decide
    \/ Finally
    \/ BeginSave
    \/ SaveNext
    \/ CommitSave
    \/ Log
    \/ Advance
    \/ ConcurrentGetAll

ConcurrentSpec == Init /\ [][ConcurrentNext]_vars

----------------------------------------------------------------------------
(* Two runs of _save_tournaments_to_db that overlap, each on its own
   connection.  sqlite serialises writers: the first UPDATE or INSERT of a
   connection opens its transaction and takes the write lock, which it holds
   until conn.commit(); a SELECT made before that reads the committed table *)

Writers == 1..2

\* int(time.time()) of the passes the writers belong to.
Stamps == 1..2

\* The candidate lists a pass may hand to _save_tournaments_to_db.
WriterInputs ==
    { RemoveDuplicateTournaments(ParseTournaments(page, "upcoming", stamp)) :
         page \in UpcomingPages, stamp \in Stamps }

\* Both writers are about to enter the for loop, on a fresh database.
OverlapInit ==
    /\ MainInit
    /\ ScrollIdle
    /\ BannerIdle
    /\ StatsIdle
    /\ WaitIdle
    /\ CacheIdle
    /\ writers \in [Writers -> { [pc |-> "select", todo |-> ts, found |-> FALSE,
                                   in_txn |-> FALSE, rows |-> <<>>,
                                   saved_count |-> 0] : ts \in WriterInputs }]

\* Another connection holds the write lock.
Locked(w) == \E v \in Writers : v # w /\ writers[v].in_txn

\* The table as writer w's connection reads it.
ViewOf(w) == IF writers[w].in_txn THEN writers[w].rows ELSE tournaments

\* cursor.execute("SELECT id FROM tournaments WHERE hash = ? AND
\* is_active = 1"); cursor.fetchone()
WriterSelect(w) ==
    /\ writers[w].pc = "select"
    /\ writers[w].todo # <<>>
    /\ writers' = [writers EXCEPT
          ![w].found = ActiveRowExists(ViewOf(w), Head(writers[w].todo).hash),
          ![w].pc = "write"]
    /\ UNCHANGED <<main_vars, scroll_vars, banner_vars, stats_vars, wait_vars,
                   cache_vars>>

\* The UPDATE (a row was fetched) or the INSERT (none was) of the candidate,
\* on the table as the connection sees it now.  The statement waits for the
\* write lock; an INSERT of an id already stored raises IntegrityError, which
\* leaves the method before conn.commit().
WriterWrite(w) ==
    /\ writers[w].pc = "write"
    /\ ~Locked(w)
    /\ LET t    == Head(writers[w].todo)
           view == ViewOf(w)
       IN  IF writers[w].found
           THEN writers' = [writers EXCEPT
                   ![w].rows = [i \in 1..Len(view) |->
                                   IF view[i].hash = t.hash /\ view[i].is_active = 1
                                   THEN UpdatedRow(view[i], t, now) ELSE view[i]],
                   ![w].in_txn = TRUE,
                   ![w].todo = Tail(writers[w].todo),
                   ![w].pc = "select"]
           ELSE IF \E i \in 1..Len(view) : view[i].id = t.id
           THEN writers' = [writers EXCEPT
                   ![w].rows = <<>>, ![w].in_txn = FALSE, ![w].pc = "raised"]
           ELSE writers' = [writers EXCEPT
                   ![w].rows = Append(view, InsertedRow(t, now)),
                   ![w].in_txn = TRUE,
                   ![w].saved_count = writers[w].saved_count + 1,
                   ![w].todo = Tail(writers[w].todo),
                   ![w].pc = "select"]
    /\ UNCHANGED <<main_vars, scroll_vars, banner_vars, stats_vars, wait_vars,
                   cache_vars>>

\* The write lock stays taken for longer than the connection's timeout:
\* the statement raises OperationalError (database is locked).
WriterTimeout(w) ==
    /\ writers[w].pc = "write"
    /\ Locked(w)
    /\ writers' = [writers EXCEPT ![w].pc = "raised"]
    /\ UNCHANGED <<main_vars, scroll_vars, banner_vars, stats_vars, wait_vars,
                   cache_vars>>

\* conn.commit(); conn.close(); return saved_count
WriterCommit(w) ==
    /\ writers[w].pc = "select"
    /\ writers[w].todo = <<>>
    /\ tournaments' = ViewOf(w)
    /\ writers' = [writers EXCEPT ![w].pc = "returned", ![w].in_txn = FALSE,
                                  ![w].rows = <<>>]
    /\ UNCHANGED <<scrape_log, now, utc_offset, pc, driver, quit_calls,
                   all_tournaments, tournaments_data, result, pending,
                   in_handler, faulted, passes, advances, swept, faults, mode,
                   reply, page_source, returned, txn>>
    /\ UNCHANGED <<scroll_vars, banner_vars, stats_vars, wait_vars, cache_vars>>

OverlapNext ==
    \E w \in Writers :
        \/ WriterSelect(w)
        \/ WriterWrite(w)
        \/ WriterTimeout(w)
        \/ WriterCommit(w)

OverlapSpec == OverlapInit /\ [][OverlapNext]_vars

----------------------------------------------------------------------------
(* get_tournament_stats beside the pipeline: each of its three awaits reads
   the store on a connection of its own, and a pass or a sweep of the scraper
   process may commit between two of them.  The store is readable throughout *)

\* all_tournaments = await self.get_all_tournaments()
StatsReadAll ==
    /\ stats_call.pc = "idle"
    /\ \E all \in GetAllTournamentsSync(tournaments, TRUE) :
          stats_call' = [stats_call EXCEPT !.pc = "upcoming", !.all = all]
    /\ UNCHANGED <<main_vars, scroll_vars, banner_vars, overlap_vars,
                   wait_vars, cache_vars>>

\* upcoming = await self.get_upcoming_tournaments(30)
StatsReadUpcoming ==
    /\ stats_call.pc = "upcoming"
    /\ \E all \in GetAllTournamentsSync(tournaments, TRUE) :
          stats_call' = [stats_call EXCEPT
                            !.pc = "registration",
                            !.upcoming = UpcomingOf(all, StatsDays, now, utc_offset)]
    /\ UNCHANGED <<main_vars, scroll_vars, banner_vars, overlap_vars,
                   wait_vars, cache_vars>>

\* with_registration = await self.get_tournaments_with_registration(), and
\* the return of the three lengths.
StatsReadRegistration ==
    /\ stats_call.pc = "registration"
    /\ \E all \in GetAllTournamentsSync(tournaments, TRUE) :
          stats_call' = [stats_call EXCEPT
                            !.pc = "returned",
                            !.with_registration = WithRegistrationOf(all)]
    /\ UNCHANGED <<main_vars, scroll_vars, banner_vars, overlap_vars,
                   wait_vars, cache_vars>>

\* The dictionary get_tournament_stats returns.
StatsResult ==
    [total             |-> Len(stats_call.all),
     upcoming_30_days  |-> Len(stats_call.upcoming),
     with_registration |-> Len(stats_call.with_registration)]

StatsNext ==
    \/ StartPass
    \/ ScrapeUpcomingTab
    \/ ScrapeRecentTab
    \/ Decide
    \/ Finally
    \/ Persist
    \/ Log
    \/ Sweep
    \/ Advance
    \/ StatsReadAll
    \/ StatsReadUpcoming
    \/ StatsReadRegistration

StatsSpec == Init /\ [][StatsNext]_vars

----------------------------------------------------------------------------
(* get_upcoming_tournaments on the stores one pass leaves for listings whose
   datetime attributes are written in the ISO-8601 forms: a calendar date, a
   date and time, the same with 'Z' or a UTC offset, and text that is no
   timestamp *)

\* Day 25 at 10:00, with the suffix given.
Timed(name, suffix) ==
    [Plain(name, NULL, <<25>>, "none", <<55>>, NULL) EXCEPT !.suffix = suffix]

\* '...T10:00:00Z'
ZuluItem == Timed(<<Chr.A>>, <<84, 2010, 90>>)

\* '...T10:00:00+01:00'
OffsetItem == Timed(<<Chr.B>>, <<84, 2010, OffsetToken(1)>>)

\* '...T10:00:00'
NaiveItem == Timed(<<Chr.C>>, <<84, 2010>>)

\* '...' followed by text that is no time of day
UnparsedItem == Timed(<<Chr.a>>, <<Chr.A>>)

\* The listings of the upcoming tab: one or two of these items.
TimedItems == {ZuluItem, OffsetItem, NaiveItem, UnparsedItem, Starts31, A_BC}

TimedPages ==
    { <<x>> : x \in TimedItems } \cup { <<x, y>> : x, y \in TimedItems }

\* The table after one pass stored a page.
StoreOf(page) ==
    SaveTournamentsToDb(<<>>,
        RemoveDuplicateTournaments(ParseTournaments(page, "upcoming", 1)),
        20 * 24).rows

UpcomingInit ==
    /\ ScrollIdle
    /\ BannerIdle
    /\ SideIdle
    /\ \E page \in TimedPages : tournaments = StoreOf(page)
    /\ scrape_log = <<>>
    /\ now = 20 * 24
    /\ utc_offset \in UtcOffsets
    /\ pc = "idle"
    /\ driver = None
    /\ quit_calls = 0
    /\ all_tournaments = <<>>
    /\ tournaments_data = <<>>
    /\ result = None
    /\ pending = NoCall
    /\ in_handler = FALSE
    /\ faulted = FALSE
    /\ passes = 0
    /\ advances = 0
    /\ swept = 0
    /\ faults = 0
    /\ mode = None
    /\ reply = NoReply
    /\ page_source = <<>>
    /\ returned = None
    /\ txn = NoTxn

UpcomingNext ==
    \/ GetUpcomingTournaments
    \/ Advance

UpcomingSpec == UpcomingInit /\ [][UpcomingNext]_vars

----------------------------------------------------------------------------
(* The waits of scheduled_tasks.py, run by themselves.  Time counts minutes;
   datetime.now() is a weekday (0 = Monday), an hour and a minute *)

\* The hours and minutes of the clock readings and of the targets.
WaitHours == {0, 9, 10, 23}
WaitMinutes == {0, 30, 59}

MinutesPerDay == 24 * 60

\* Minutes since midnight.
MinuteOfDay(hour, minute) == hour * 60 + minute

\* A wait method has been called and is about to read the clock.
WaitInit ==
    /\ MainInit
    /\ ScrollIdle
    /\ BannerIdle
    /\ OverlapIdle
    /\ StatsIdle
    /\ CacheIdle
    /\ wait_now \in [weekday : 0..6, hour : WaitHours, minute : WaitMinutes]
    /\ wait_args \in [method : {"_wait_until_time", "_wait_until_weekday"},
                      weekday : 0..6, hour : WaitHours, minute : WaitMinutes]
    /\ wait_seconds = 0
    /\ wait_pc = "called"

\* _wait_until_time(hour, minute): target is today's hour:minute, or
\* tomorrow's when now >= target.
WaitUntilTime ==
    /\ wait_pc = "called"
    /\ wait_args.method = "_wait_until_time"
    /\ LET now_   == MinuteOfDay(wait_now.hour, wait_now.minute)
           today  == MinuteOfDay(wait_args.hour, wait_args.minute)
           target == IF now_ >= today THEN today + MinutesPerDay ELSE today
       IN  wait_seconds' = target - now_
    /\ wait_pc' = "sleeping"
    /\ UNCHANGED <<wait_now, wait_args, main_vars, scroll_vars, banner_vars,
                   overlap_vars, stats_vars, cache_vars>>

\* _wait_until_weekday(weekday, hour, minute): days_ahead is the distance to
\* the weekday, a week more when it is negative or when it is zero and
\* now.hour >= hour; target is that day at hour:minute.
WaitUntilWeekday ==
    /\ wait_pc = "called"
    /\ wait_args.method = "_wait_until_weekday"
    /\ LET d0 == wait_args.weekday - wait_now.weekday
           days_ahead == IF d0 < 0 \/ (d0 = 0 /\ wait_now.hour >= wait_args.hour)
                         THEN d0 + 7 ELSE d0
       IN  wait_seconds' = days_ahead * MinutesPerDay
                             + MinuteOfDay(wait_args.hour, wait_args.minute)
                             - MinuteOfDay(wait_now.hour, wait_now.minute)
    /\ wait_pc' = "sleeping"
    /\ UNCHANGED <<wait_now, wait_args, main_vars, scroll_vars, banner_vars,
                   overlap_vars, stats_vars, cache_vars>>

WaitNext ==
    \/ WaitUntilTime
    \/ WaitUntilWeekday

WaitSpec == WaitInit /\ [][WaitNext]_vars

----------------------------------------------------------------------------
(* The autocomplete cache of bot.py, run by itself.  Time counts seconds *)

\* The instants at which the bot does something: within the 300 seconds
\* after start, just after them, a day after start, and later that day.
CacheTimes == {0, 200, 301, 86400, 86410, 86800}

SecondsPerDay == 24 * 60 * 60

\* The age beyond which team_autocomplete refreshes.
RefreshAfter == 300

\* The number of choices an autocomplete reply may carry.
MaxChoices == 25

\* timedelta.seconds of a non-negative difference of d seconds: the seconds
\* within the day, the whole days being in timedelta.days.
TimedeltaSeconds(d) == d % SecondsPerDay

\* Teams as api.get_teams() returns them.
Team(teamnr, group_name, klasse, pID) ==
    [teamnr |-> teamnr, group_name |-> group_name, klasse |-> klasse,
     pID |-> pID]

\* The lists api.get_teams() may return.
TeamLists ==
    { <<>>,
      << Team(<<49>>, <<Chr.A>>, <<Chr.B>>, 1),
         Team(<<50>>, <<Chr.A>>, <<Chr.C>>, 2) >> }

\* The texts typed so far.
Currents == { <<>>, <<Chr.c>> }

\* on_ready has awaited refresh_teams_cache(), which filled the cache or
\* failed and left the globals as defined.
CacheInit ==
    /\ MainInit
    /\ ScrollIdle
    /\ BannerIdle
    /\ OverlapIdle
    /\ StatsIdle
    /\ WaitIdle
    /\ cache_clock = 0
    /\ refresh_tasks = 0
    /\ choices = NoChoices
    /\ \/ teams_cache \in TeamLists /\ last_cache_update = 0
       \/ teams_cache = <<>> /\ last_cache_update = NeverUpdated

\* Time passes.
CacheTick ==
    /\ cache_clock' \in {t \in CacheTimes : t > cache_clock}
    /\ choices' = NoChoices
    /\ UNCHANGED <<teams_cache, last_cache_update, refresh_tasks, main_vars,
                   scroll_vars, banner_vars, overlap_vars, stats_vars,
                   wait_vars>>

\* A task created by team_autocomplete runs refresh_teams_cache: the API call
\* returns the teams, or raises and the globals stay.
RefreshTeamsCache ==
    /\ refresh_tasks > 0
    /\ refresh_tasks' = refresh_tasks - 1
    /\ \/ /\ teams_cache' \in TeamLists
          /\ last_cache_update' = cache_clock
       \/ UNCHANGED <<teams_cache, last_cache_update>>
    /\ UNCHANGED <<cache_clock, choices, main_vars, scroll_vars, banner_vars,
                   overlap_vars, stats_vars, wait_vars>>

\* The values of the choices team_autocomplete builds from the cache.
ChoicesOf(cache, current) ==
    LET current_lower == Lower(current)
        match(t) == \/ Contains(current_lower, Lower(t.teamnr))
                    \/ Contains(current_lower, Lower(t.group_name))
                    \/ Contains(current_lower, Lower(t.klasse))
        filtered == SelectSeq(cache, match)
        n == IF Len(filtered) < MaxChoices THEN Len(filtered) ELSE MaxChoices
    IN  [k \in 1..n |-> filtered[k].pID]

\* team_autocomplete(interaction, current)
TeamAutocomplete ==
    /\ choices = NoChoices
    /\ \E current \in Currents :
          IF teams_cache = <<>>
          THEN /\ choices' = <<>>
               /\ UNCHANGED refresh_tasks
          ELSE /\ refresh_tasks' =
                     IF \/ last_cache_update = NeverUpdated
                        \/ TimedeltaSeconds(cache_clock - last_cache_update)
                              > RefreshAfter
                     THEN refresh_tasks + 1 ELSE refresh_tasks
               /\ choices' = ChoicesOf(teams_cache, current)
    /\ UNCHANGED <<teams_cache, last_cache_update, cache_clock, main_vars,
                   scroll_vars, banner_vars, overlap_vars, stats_vars,
                   wait_vars>>

CacheNext ==
    \/ CacheTick
    \/ RefreshTeamsCache
    \/ TeamAutocomplete

CacheSpec == CacheInit /\ [][CacheNext]_vars

----------------------------------------------------------------------------
(* Readings of the store used by the properties *)

\* The instant (UTC hours) a scraped_at text denotes.
InstantOf(ts) == (ts[1] - 1000) * 24 + (ts[3] - 2000)

\* The local instant a start_date / end_date text denotes: 00:00 of its day.
DateInstant(d) == (d[1] - 1000) * 24

\* The fingerprints of a candidate list.
HashesOf(ts) == {ts[k].hash : k \in 1..Len(ts)}

\* The primary keys of a table.
IdsOf(rows) == {rows[i].id : i \in 1..Len(rows)}

\* A table without its scraped_at column.
WithoutScrapedAt(rows) ==
    [i \in 1..Len(rows) |-> [rows[i] EXCEPT !.scraped_at = NULL]]

\* A pass has just committed its reconciliation.
JustPersisted == pc = "log" /\ pending.status = "success"

\* The retention conditions of the sweeper, read on instants: the row was
\* last refreshed more than days_old days ago, or its end date, or without one
\* its start date, is more than 7 days ago.
Expired(row, days_old) ==
    \/ InstantOf(row.scraped_at) < now - days_old * 24
    \/ (row.end_date # NULL
            /\ DateInstant(row.end_date) < DatetimeNow(now, utc_offset) - 7 * 24)
    \/ (row.end_date = NULL /\ row.start_date # NULL
            /\ DateInstant(row.start_date) < DatetimeNow(now, utc_offset) - 7 * 24)

\* The row is younger than the staleness window and its relevant date, if it
\* has one, is not earlier than 7 days ago.
Fresh(row, days_old) ==
    /\ InstantOf(row.scraped_at) > now - days_old * 24
    /\ (row.end_date # NULL
            => DateInstant(row.end_date) >= DatetimeNow(now, utc_offset) - 7 * 24)
    /\ (row.end_date = NULL /\ row.start_date # NULL
            => DateInstant(row.start_date) >= DatetimeNow(now, utc_offset) - 7 * 24)

\* The ids of the records of a returned list.
ReplyIds == {reply.value[k].id : k \in 1..Len(reply.value)}

\* The active rows of the table.
ActiveRows == {i \in 1..Len(tournaments) : tournaments[i].is_active = 1}

\* The stored row with a given id (the primary key).
RowOf(id) == CHOOSE i \in 1..Len(tournaments) : tournaments[i].id = id

\* The row's start date lies in [now, now + days], read on local instants.
StartsWithin(row, days) ==
    /\ row.start_date # NULL
    /\ DatetimeNow(now, utc_offset) <= DateInstant(row.start_date)
    /\ DateInstant(row.start_date) <= DatetimeNow(now, utc_offset) + days * 24


\* The key of a candidate as the deduplication rule words it: name, start
\* date and location, trimmed and without regard to case.
TrimmedKey(t) == << Lower(Strip(t.name)),
                    Lower(Strip(GetOrEmpty(t.start_date))),
                    Lower(Strip(GetOrEmpty(t.location))) >>

\* The position of the first candidate of a list with a given key.
FirstWithKey(ts, key) ==
    CHOOSE i \in 1..Len(ts) :
        /\ TrimmedKey(ts[i]) = key
        /\ \A j \in 1..(i - 1) : TrimmedKey(ts[j]) # key

\* The candidates a tab step has appended to all_tournaments.
Appended ==
    SubSeq(all_tournaments', Len(all_tournaments) + 1, Len(all_tournaments'))

\* A tab step that parsed a page (left in page_source).
ParsedAPage ==
    pc \in {"upcoming", "recent"} /\ faults' = faults

\* The tournament ids (the id= of the title link) of a list of items or of
\* candidates.
TidsOfItems(items) == [k \in 1..Len(items) |-> items[k].tid]
TidsOfCandidates(ts) == [k \in 1..Len(ts) |-> ts[k].tournament_id]

\* The item of a page with a given tournament id.
ItemOf(page, tid) == page[CHOOSE k \in 1..Len(page) : page[k].tid = tid]

\* The text after the first pipe of a text that holds one.
AfterFirstPipe(text) ==
    SubSeq(text, Min(Pipes(text)) + 1, Len(text))

\* The last candidate of a list with a given fingerprint.
LastWithHash(ts, h) ==
    ts[CHOOSE k \in 1..Len(ts) :
          /\ ts[k].hash = h
          /\ \A l \in (k + 1)..Len(ts) : ts[l].hash # h]

\* The fingerprints of a candidate list are pairwise distinct.
DistinctHashes(ts) ==
    \A k, l \in 1..Len(ts) : k # l => ts[k].hash # ts[l].hash

\* A pass commits its reconciliation in this step.
Commits == pc = "persist" /\ pending'.status = "success"

\* The selectors that find a clickable element.
Clickable == {k \in 1..10 : outcomes[k] \in {"intercepted", "clicked"}}

----------------------------------------------------------------------------
(* Properties *)

\* C1: the tournaments table never holds two active rows with the same
\* fingerprint, after any sequence of scrape passes and retention sweeps.
C1_OneActiveRowPerHash ==
    \A i, j \in 1..Len(tournaments) :
        (i # j /\ tournaments[i].hash = tournaments[j].hash)
            => ~(tournaments[i].is_active = 1 /\ tournaments[j].is_active = 1)

\* C1 witness: a fingerprint with a retired row and a row inserted for it by
\* a later pass.
C1_Witness ==
    \E i, j \in 1..Len(tournaments) :
        /\ tournaments[i].hash = tournaments[j].hash
        /\ tournaments[i].is_active = 0
        /\ tournaments[j].is_active = 1

\* C2: reconciliation is idempotent: right after a pass committed its
\* candidates, _save_tournaments_to_db run again with the same candidates
\* inserts no row and leaves every stored value but scraped_at as it is.
C2_Idempotent ==
    JustPersisted =>
        LET again == SaveTournamentsToDb(tournaments, tournaments_data, now + 1)
        IN  /\ again.ok
            /\ again.saved_count = 0
            /\ WithoutScrapedAt(again.rows) = WithoutScrapedAt(tournaments)

\* C2 witness: a committed pass of several candidates that inserted some and
\* updated others.
C2_Witness ==
    /\ JustPersisted
    /\ Len(tournaments_data) >= 2
    /\ pending.tournaments_found >= 1
    /\ pending.tournaments_found < Len(tournaments_data)

\* C3: reconciliation leaves every row whose fingerprint is not among the
\* candidates of the pass unchanged, and no step but the retention sweep
\* turns is_active from 1 to 0.
C3_AbsentRowsUntouched ==
    [][ /\ pc = "persist" =>
            \A i \in 1..Len(tournaments) :
                tournaments[i].hash \notin HashesOf(tournaments_data)
                    => /\ i <= Len(tournaments')
                       /\ tournaments'[i] = tournaments[i]
        /\ \A i \in 1..Len(tournaments) :
                (i <= Len(tournaments') /\ tournaments[i].is_active = 1
                    /\ tournaments'[i].is_active = 0) => swept' # 0
      ]_vars

\* C3 witness: a pass committed while an active row of a fingerprint it did
\* not observe is in the table.
C3_Witness ==
    /\ JustPersisted
    /\ \E i \in 1..Len(tournaments) :
          /\ tournaments[i].hash \notin HashesOf(tournaments_data)
          /\ tournaments[i].is_active = 1

\* C4: no operation removes a row: every id present before a step is present
\* after it.
C4_NoRowDeleted ==
    [][IdsOf(tournaments) \subseteq IdsOf(tournaments')]_vars

\* C4 witness: a sweep has retired a row, and the row is still there.
C4_Witness ==
    /\ swept # 0
    /\ \E i \in 1..Len(tournaments) : tournaments[i].is_active = 0

\* C5 (as claimed): after a retention sweep with window days_old, every row
\* that was last refreshed more than days_old days ago, or whose end date (or,
\* without one, start date) is more than 7 days ago, is inactive.
C5_SweepRetiresExpired ==
    swept # 0 =>
        \A i \in 1..Len(tournaments) :
            Expired(tournaments[i], swept) => tournaments[i].is_active = 0

\* C6 (as claimed): a retention sweep leaves active every active row that is
\* younger than the staleness window and whose relevant date is not earlier
\* than 7 days ago.
C6_SweepKeepsFresh ==
    [][ swept' # 0 =>
            \A i \in 1..Len(tournaments) :
                (tournaments[i].is_active = 1 /\ Fresh(tournaments[i], swept'))
                    => tournaments'[i].is_active = 1
      ]_vars

\* C7 (as claimed): every call of scrape_tournaments appends exactly one row
\* to scrape_log.
C7_OneLogRowPerCall ==
    pc = "idle" => Len(scrape_log) = passes

\* C8 (as claimed): the count in the row logged for a successful pass is the
\* number of deduplicated records of the pass.
C8_CountIsRecordsFound ==
    [][ (Len(scrape_log') = Len(scrape_log) + 1
            /\ scrape_log'[Len(scrape_log')].status = "success")
        => scrape_log'[Len(scrape_log')].tournaments_found = Len(tournaments_data)
      ]_vars

\* C9 (as claimed): after a driver-level fault at any step of a pass, the pass
\* writes nothing to the tournaments table and its attempt is not logged as
\* success.
C9_DriverFaultAborts ==
    [][ faulted =>
            /\ tournaments' = tournaments
            /\ Len(scrape_log') = Len(scrape_log) + 1
                  => scrape_log'[Len(scrape_log')].status \in {"failed", "error"}
      ]_vars

\* C10: once _scrape_with_selenium has returned or raised, a session it
\* started has been released by exactly one driver.quit(), on every path, and
\* none is open; no pass calls quit twice.
C10_SessionReleased ==
    /\ quit_calls <= 1
    /\ driver = "open" => pc \in {"upcoming", "recent", "decide", "finally"}
    /\ pc \in {"persist", "log"} => (driver = "quit" <=> quit_calls = 1)
    /\ pc = "idle" => driver = None

\* C10 witness: a pass whose driver faulted is about to log, its session
\* released.
C10_Witness ==
    pc = "log" /\ faulted /\ driver = "quit" /\ quit_calls = 1

\* C11 (as claimed): get_upcoming_tournaments(days) returns exactly the active
\* records whose start date lies in [now, now + days] together with every
\* active record that has no start date.
C11_UpcomingKeepsUndated ==
    (reply.op = "upcoming" /\ reply.readable) =>
        /\ Len(reply.value) = Cardinality(ReplyIds)
        /\ ReplyIds = {tournaments[i].id : i \in
                          {j \in ActiveRows :
                              \/ tournaments[j].start_date = NULL
                              \/ StartsWithin(tournaments[j], reply.days)}}

\* C12 (as claimed): get_all_tournaments returns all and only the active
\* records, ordered by start date ascending with the undated records at one
\* end, and records with equal start date by scraped_at descending.
C12_AllOrdered ==
    (reply.op = "all" /\ reply.readable) =>
        /\ Len(reply.value) = Cardinality(ReplyIds)
        /\ ReplyIds = {tournaments[i].id : i \in ActiveRows}
        /\ \A k, l \in 1..Len(reply.value) :
              k < l =>
                LET rk == tournaments[RowOf(reply.value[k].id)]
                    rl == tournaments[RowOf(reply.value[l].id)]
                IN  /\ ~SqlOrderLess(rl.start_date, rk.start_date)
                    /\ rk.start_date = rl.start_date
                          => ~TextLess(rk.scraped_at, rl.scraped_at)

\* C13 (as claimed): search_tournaments(query) returns exactly the active
\* records whose stored name or stored location contains the query without
\* regard to case; a record without a stored location only if its name does.
C13_SearchStoredText ==
    (reply.op = "search" /\ reply.readable) =>
        /\ Len(reply.value) = Cardinality(ReplyIds)
        /\ ReplyIds = {tournaments[i].id : i \in
                          {j \in ActiveRows :
                              \/ Contains(Lower(reply.query),
                                          Lower(tournaments[j].name))
                              \/ /\ tournaments[j].location # NULL
                                 /\ Contains(Lower(reply.query),
                                             Lower(tournaments[j].location))}}

\* C14: when its reads of the store succeed, get_tournament_stats returns
\* total = the number of records get_all_tournaments returns,
\* upcoming_30_days = the number get_upcoming_tournaments(30) returns and
\* with_registration = the number of active rows whose
\* registration_available is true.
C14_StatsCounts ==
    (reply.op = "stats" /\ reply.readable) =>
        /\ \A all \in GetAllTournamentsSync(tournaments, TRUE) :
              /\ reply.stats.total = Len(all)
              /\ reply.stats.upcoming_30_days =
                    Len(UpcomingOf(all, 30, now, utc_offset))
        /\ reply.stats.with_registration =
              Cardinality({i \in ActiveRows :
                              tournaments[i].registration_available})

\* C14 witness: statistics of a store with several active records, some of
\* them upcoming, one open for registration and one with a link but closed.
C14_Witness ==
    /\ reply.op = "stats" /\ reply.readable
    /\ reply.stats.total >= 2
    /\ reply.stats.upcoming_30_days >= 1
    /\ reply.stats.upcoming_30_days < reply.stats.total
    /\ reply.stats.with_registration >= 1
    /\ \E i \in ActiveRows : /\ tournaments[i].registration_url # NULL
                             /\ ~tournaments[i].registration_available

\* C15: when the store cannot be read, a TournamentClient call returns an
\* empty result: the empty list, and statistics whose counts are all 0.
C15_UnreadableIsEmpty ==
    reply.unreadable =>
        /\ reply.value = <<>>
        /\ reply.stats = [total |-> 0, upcoming_30_days |-> 0,
                          with_registration |-> 0]

\* C15 witness: statistics asked of a store that holds active records and
\* cannot be read.
C15_Witness ==
    /\ reply.op = "stats"
    /\ reply.unreadable
    /\ \E i \in ActiveRows : tournaments[i].registration_available

\* C16: a TournamentClient call leaves the tournaments table and scrape_log
\* as they are and neither starts nor uses a browser session.
C16_FacadeReadsOnly ==
    [][ (reply.op = "none" /\ reply'.op # "none") =>
            /\ tournaments' = tournaments
            /\ scrape_log' = scrape_log
            /\ driver = None /\ driver' = None
            /\ quit_calls' = quit_calls
      ]_vars

\* C16 witness: a search has returned records from a store that passes have
\* written and logged.
C16_Witness ==
    /\ reply.op = "search"
    /\ reply.value # <<>>
    /\ scrape_log # <<>>

\* C17 (as claimed): a pass started by main() in test mode does not persist:
\* no step of it changes the tournaments table.
C17_TestModeKeepsStore ==
    [][ mode = "test" => tournaments' = tournaments ]_vars

\* C18 (as claimed): two candidates with the same start date whose name and
\* location differ only in letter case or surrounding whitespace carry the
\* same hash.
C18_HashIgnoresCase ==
    \A k, l \in 1..Len(all_tournaments) :
        DedupKey(all_tournaments[k]) = DedupKey(all_tournaments[l])
            => all_tournaments[k].hash = all_tournaments[l].hash

C20_ClosedIsUnavailable ==
    /\ \A k \in 1..Len(all_tournaments) :
          all_tournaments[k].registration_status = Closed
              => ~all_tournaments[k].registration_available
    /\ \A k \in 1..Len(tournaments_data) :
          tournaments_data[k].registration_status = Closed
              => ~tournaments_data[k].registration_available
    /\ \A i \in 1..Len(tournaments) :
          tournaments[i].registration_status = Closed
              => ~tournaments[i].registration_available

\* C20 witness: a row stored by the first pass has been updated by a later
\* pass from a listing whose registration link reads closed.
C20_Witness ==
    \E i \in 1..Len(tournaments) :
        /\ tournaments[i].registration_status = Closed
        /\ tournaments[i].registration_url # NULL
        /\ tournaments[i].scraped_at # CurrentTimestamp(20 * 24)
        /\ tournaments[i].id[3] = 1

\* C21: a record is emitted for a list item only if the item has a title, no
\* checkbox, no advertisement container, no 'cookie' within the first 100
\* characters of its text, and a non-empty name; an item with a checkbox is
\* never emitted.
C21_OnlyQualifyingEmitted ==
    [][ ParsedAPage =>
          /\ \A k \in 1..Len(Appended) :
                /\ \E i \in 1..Len(page_source') :
                      page_source'[i].tid = Appended[k].tournament_id
                /\ LET item == ItemOf(page_source', Appended[k].tournament_id)
                   IN  /\ item.title
                       /\ ~item.checkbox
                       /\ ~item.ad
                       /\ (item.cookie_at = 0 \/ item.cookie_at > 95)
                       /\ item.name # NULL /\ item.name # <<>>
                       /\ Appended[k].name = item.name
          /\ \A i \in 1..Len(page_source') :
                page_source'[i].checkbox =>
                    \A k \in 1..Len(Appended) :
                        Appended[k].tournament_id # page_source'[i].tid
      ]_vars

\* C21 witness: the upcoming tab rendered a page with a titled checkbox item
\* between two listings, and the two listings were emitted.
C21_Witness ==
    /\ pc = "recent"
    /\ Len(all_tournaments) = 2
    /\ \E i \in 1..Len(page_source) :
          /\ page_source[i].checkbox /\ page_source[i].title
          /\ i > 1 /\ i < Len(page_source)

\* C27: an element whose extraction raises is skipped by itself:
\* _parse_tournaments returns the records of all qualifying, named elements
\* that parse, in page order, however many others raise.
C27_FaultSkipsOneElement ==
    [][ ParsedAPage =>
          LET parses(item) == /\ item.title /\ ~item.checkbox /\ ~item.ad
                              /\ (item.cookie_at = 0 \/ item.cookie_at > 95)
                              /\ ~item.raises
                              /\ item.name # NULL /\ item.name # <<>>
          IN  TidsOfCandidates(Appended)
                = TidsOfItems(SelectSeq(page_source', parses))
      ]_vars

\* C27 witness: a page on which two elements raised, with a listing emitted
\* before the second of them and one after it.
C27_Witness ==
    /\ pc = "recent"
    /\ Len(all_tournaments) = 2
    /\ Cardinality({i \in 1..Len(page_source) : page_source[i].raises}) = 2
    /\ \E i, j, k \in 1..Len(page_source) :
          /\ i < j /\ j < k
          /\ page_source[j].raises
          /\ page_source[i].tid = all_tournaments[1].tournament_id
          /\ page_source[k].tid = all_tournaments[2].tournament_id

\* C30 (as claimed): for a subheading text with a pipe the extracted location
\* is everything after the first pipe, trimmed; for a text without a pipe it
\* is the whole text.
C30_LocationAfterFirstPipe ==
    [][ ParsedAPage =>
          \A k \in 1..Len(Appended) :
              LET text == ItemOf(page_source', Appended[k].tournament_id).location
              IN  text # NULL =>
                    Appended[k].location =
                        IF Pipes(text) = {} THEN text
                        ELSE Strip(AfterFirstPipe(text))
      ]_vars

\* C22: persisting n candidates with pairwise distinct fingerprints into an
\* empty store yields exactly n rows, all active, and get_tournament_stats
\* asked of that store reports total = n.
C22_DistinctIntoEmpty ==
    [][ /\ (Commits /\ tournaments = <<>> /\ DistinctHashes(tournaments_data))
            => /\ Len(tournaments') = Len(tournaments_data)
               /\ \A i \in 1..Len(tournaments') : tournaments'[i].is_active = 1
        /\ ( /\ reply.op = "none" /\ reply'.op = "stats" /\ reply'.readable
             /\ DistinctHashes(tournaments_data)
             /\ Len(tournaments) = Len(tournaments_data)
             /\ \A i \in 1..Len(tournaments) :
                   /\ tournaments[i].is_active = 1
                   /\ tournaments[i].id = tournaments_data[i].id )
            => reply'.stats.total = Len(tournaments_data)
      ]_vars

\* C22 witness: three listings of a page that also held a checkbox item and
\* an advertisement were persisted into the empty store, and the statistics
\* report a total of 3.
C22_Witness ==
    /\ reply.op = "stats" /\ reply.readable
    /\ reply.stats.total = 3
    /\ Len(tournaments) = 3
    /\ Len(tournaments_data) = 3
    /\ \A i \in 1..3 : /\ tournaments[i].id = tournaments_data[i].id
                       /\ tournaments[i].source = "recent"

\* C28: when a pass observes a fingerprint that has an active row,
\* reconciliation overwrites that row's mutable fields with the candidate's
\* values and refreshes scraped_at; the row keeps its id, and rows are added
\* only for fingerprints without an active row.
C28_UpdateKeepsIdentity ==
    [][ Commits =>
          /\ \A i \in 1..Len(tournaments) :
                (tournaments[i].is_active = 1
                    /\ tournaments[i].hash \in HashesOf(tournaments_data))
                => LET t == LastWithHash(tournaments_data, tournaments[i].hash)
                       r == tournaments'[i]
                   IN  /\ r.id = tournaments[i].id
                       /\ r.is_active = 1
                       /\ r.name = t.name /\ r.location = t.location
                       /\ r.date = t.date /\ r.start_date = t.start_date
                       /\ r.end_date = t.end_date
                       /\ r.categories = t.categories
                       /\ r.registration_available = t.registration_available
                       /\ r.registration_url = t.registration_url
                       /\ r.registration_status = t.registration_status
                       /\ r.tournament_url = t.tournament_url
                       /\ r.source = t.source
                       /\ r.extraction_method = t.extraction_method
                       /\ r.scraped_at = CurrentTimestamp(now)
          /\ Len(tournaments') = Len(tournaments)
                + Cardinality({h \in HashesOf(tournaments_data) :
                                  ~\E i \in 1..Len(tournaments) :
                                      /\ tournaments[i].hash = h
                                      /\ tournaments[i].is_active = 1})
      ]_vars

\* C28 witness: the second pass, at a later hour, has refreshed a row that the
\* first pass inserted.
C28_Witness ==
    /\ JustPersisted
    /\ passes = 2
    /\ now > 20 * 24
    /\ \E i \in 1..Len(tournaments) :
          /\ tournaments[i].id[3] = 1
          /\ tournaments[i].is_active = 1
          /\ tournaments[i].scraped_at = CurrentTimestamp(now)

\* C29: when a pass observes a fingerprint whose stored rows are all
\* inactive, reconciliation inserts one new active row for it and leaves the
\* inactive rows of that fingerprint as they are.
C29_RetiredNotReactivated ==
    [][ Commits =>
          \A h \in HashesOf(tournaments_data) :
              ( /\ \E i \in 1..Len(tournaments) : tournaments[i].hash = h
                /\ \A i \in 1..Len(tournaments) :
                      tournaments[i].hash = h => tournaments[i].is_active = 0 )
              => /\ \A i \in 1..Len(tournaments) :
                       tournaments[i].hash = h => tournaments'[i] = tournaments[i]
                 /\ Cardinality({j \in 1..Len(tournaments') :
                                    /\ j > Len(tournaments)
                                    /\ tournaments'[j].hash = h
                                    /\ tournaments'[j].is_active = 1}) = 1
      ]_vars

\* C29 witness: a pass has just inserted a new active row for a fingerprint
\* whose earlier row a sweep had retired.
C29_Witness ==
    /\ JustPersisted
    /\ \E i, j \in 1..Len(tournaments) :
          /\ i < j
          /\ tournaments[i].hash = tournaments[j].hash
          /\ tournaments[i].is_active = 0
          /\ tournaments[j].is_active = 1
          /\ tournaments[j].id[3] = passes

\* C25: a store fault while a pass persists its candidates is surfaced: none
\* of the pass's writes is committed, the pass goes to the except block of
\* scrape_tournaments, and from there it neither logs a success row nor
\* returns True.
C25_StoreFaultSurfaced ==
    [][ /\ (pc = "persist" /\ pending'.status = "error")
            => /\ tournaments' = tournaments
               /\ in_handler'
        /\ (pc = "log" /\ in_handler)
            => /\ tournaments' = tournaments
               /\ returned' # "True"
               /\ Len(scrape_log') = Len(scrape_log) + 1
                     => scrape_log'[Len(scrape_log')].status = "error"
      ]_vars

\* C25 witness: the first pass found candidates, the store failed while they
\* were persisted, and the call returned False with an error row logged and
\* an empty table.
C25_Witness ==
    /\ pc = "idle"
    /\ passes = 1
    /\ returned = "False"
    /\ tournaments_data # <<>>
    /\ tournaments = <<>>
    /\ Len(scrape_log) = 1
    /\ scrape_log[1].status = "error"

\* C23: the lazy-load loop ends for every sequence of reported heights; it
\* scrolls at most 5 times, and it ends right after the first scroll that
\* leaves the height equal to the height measured before that scroll.
C23_ScrollTerminates ==
    /\ <>(scroll_pc = "done")
    /\ [](scrolls <= 5)
    /\ [][ scrolls' = scrolls + 1 =>
             /\ \A k \in 1..scrolls : heights[k + 1] # heights[k]
             /\ (heights[scrolls + 2] = heights[scrolls + 1]) => scroll_pc' = "done"
             /\ (heights[scrolls + 2] # heights[scrolls + 1]) => scroll_pc' = "loop"
         ]_vars

\* C23 witness: the height changed three times and then stayed, and the loop
\* ended after its fourth scroll.
C23_Witness ==
    /\ scroll_pc = "done"
    /\ scrolls = 4
    /\ scroll_attempts = 3
    /\ heights[5] = heights[4]
    /\ heights[6] # heights[5]

\* C26: the handler uses the first selector whose element becomes
\* clickable and tries no later selector after that, so at most one element
\* is clicked per run.
C26_FirstClickableEnds ==
    /\ Clickable # {} => selector <= Min(Clickable)
    /\ Len(clicks) <= 1

\* C24: a query that runs while a pass reconciles returns the committed table
\* of that instant, and during a pass the committed table changes only once,
\* from the table before the reconciliation to the table with every write of
\* the pass: the query never sees only some of the rows the pass inserts or
\* updates.
C24_QuerySeesWholePass ==
    [][ /\ (reply.op = "none" /\ reply'.op = "all" /\ reply'.readable)
             => reply'.value \in GetAllTournamentsSync(tournaments, TRUE)
        /\ (pc # "idle" /\ tournaments' # tournaments)
             => /\ Len(tournaments_data) >= 1
                /\ tournaments' =
                     SaveTournamentsToDb(tournaments, tournaments_data, now).rows
      ]_vars

\* C24 witness: the second pass has executed the statements of one of its two
\* candidates and not yet the other's, and a query answered meanwhile with
\* the rows the first pass committed.
C24_Witness ==
    /\ passes = 2
    /\ txn.open
    /\ txn.rows # tournaments
    /\ Len(txn.todo) = 1
    /\ Len(tournaments_data) = 2
    /\ reply.op = "all"
    /\ reply.readable
    /\ Len(reply.value) = Cardinality(ActiveRows)
    /\ reply.value # <<>>

\* C31: once a row is inactive it stays inactive and no field of it is
\* overwritten, whatever scrape passes and retention sweeps follow: every
\* step keeps every inactive row, at its place, as it is.
C31_InactiveIsFinal ==
    [][ /\ Len(tournaments') >= Len(tournaments)
        /\ \A i \in 1..Len(tournaments) :
              tournaments[i].is_active = 0 => tournaments'[i] = tournaments[i]
      ]_vars

\* C31 witness: after a sweep retired a row, a later pass at a later time
\* observed its fingerprint twice, inserting a new row and then updating that
\* new row, and the retired row still carries its earlier refresh time.
C31_Witness ==
    /\ JustPersisted
    /\ passes = 2
    /\ \E i, j \in 1..Len(tournaments) :
          /\ i < j
          /\ tournaments[i].hash = tournaments[j].hash
          /\ tournaments[i].is_active = 0
          /\ tournaments[j].is_active = 1
          /\ tournaments[i].scraped_at # tournaments[j].scraped_at
          /\ \E k, l \in 1..Len(tournaments_data) :
                /\ k < l
                /\ tournaments_data[k].hash = tournaments[i].hash
                /\ tournaments_data[l].hash = tournaments[i].hash

\* C32: two candidates that survive the deduplication of a pass and whose
\* (name, start_date, location) triples differ carry different hashes, so no
\* candidate of a pass overwrites the row of another candidate of that pass.
C32_HashDistinguishesTriples ==
    \A k, l \in 1..Len(tournaments_data) :
        <<tournaments_data[k].name, tournaments_data[k].start_date,
          tournaments_data[k].location>>
          # <<tournaments_data[l].name, tournaments_data[l].start_date,
              tournaments_data[l].location>>
        => tournaments_data[k].hash # tournaments_data[l].hash

\* C33: when two scrape passes overlap the table still holds at most one
\* active row per fingerprint, for every interleaving of the SELECT and the
\* INSERT of two writers that both observe a fingerprint not yet stored.
C33_OverlapKeepsOneActive ==
    \A h \in {tournaments[i].hash : i \in 1..Len(tournaments)} :
        Cardinality({i \in 1..Len(tournaments) :
                        tournaments[i].hash = h /\ tournaments[i].is_active = 1})
            <= 1

\* C34: the statistics are computed from one view of the store even when a
\* pass or a sweep commits between the reads: in every result
\* upcoming_30_days <= total and with_registration <= total.
C34_StatsFromOneView ==
    stats_call.pc = "returned"
        => /\ StatsResult.upcoming_30_days <= StatsResult.total
           /\ StatsResult.with_registration <= StatsResult.total

\* C35: get_upcoming_tournaments returns a list and does not raise, whatever
\* start_date texts the active rows hold, timestamps with a 'Z' or a UTC
\* offset included.
C35_UpcomingNeverRaises ==
    reply.op = "upcoming" => ~reply.raised

\* C36: the attempt log and the store agree, wherever a fault occurs: when
\* the row logged for an attempt has status failed or error the attempt has
\* committed nothing to the tournaments table (no row carries the id of a
\* candidate of that attempt), and when scrape_tournaments returns True the
\* row logged for the attempt has status success.
C36_LogAgreesWithStore ==
    [][ Len(scrape_log') = Len(scrape_log) + 1 =>
          LET row == scrape_log'[Len(scrape_log')]
          IN  /\ row.status \in {"failed", "error"}
                    => \A i \in 1..Len(tournaments) :
                           tournaments[i].id[3] # passes
              /\ returned' = "True" => row.status = "success"
      ]_vars

\* The minutes from the clock reading to the earliest later moment that falls
\* on the target's weekday (any weekday for _wait_until_time) at its
\* hour:minute.
NextOccurrence ==
    LET delta(d) == d * MinutesPerDay
                      + MinuteOfDay(wait_args.hour, wait_args.minute)
                      - MinuteOfDay(wait_now.hour, wait_now.minute)
        fits(d) == \/ wait_args.method = "_wait_until_time"
                   \/ (wait_now.weekday + d) % 7 = wait_args.weekday
    IN  Min({delta(d) : d \in {e \in 0..7 : fits(e) /\ delta(e) > 0}})

\* C37: both waits sleep a strictly positive duration that ends at the
\* earliest moment after now at the target hour:minute (on the target
\* weekday for _wait_until_weekday): never more than 7 days for
\* _wait_until_weekday, never more than 24 hours for _wait_until_time.
C37_WaitsUntilNextOccurrence ==
    wait_pc = "sleeping"
        => /\ wait_seconds > 0
           /\ wait_seconds = NextOccurrence
           /\ wait_seconds <= (IF wait_args.method = "_wait_until_time"
                               THEN MinutesPerDay ELSE 7 * MinutesPerDay)

\* C38: every team_autocomplete call that finds teams in a cache last
\* refreshed more than 300 seconds ago creates a refresh task, whatever the
\* age of the cache (a day or more included), and answers from the cache as
\* it is, without waiting for the task.
C38_StaleCacheIsRefreshed ==
    [][ ( /\ choices = NoChoices
          /\ choices' # NoChoices
          /\ teams_cache # <<>>
          /\ last_cache_update # NeverUpdated
          /\ cache_clock - last_cache_update > 300 )
        => /\ refresh_tasks' = refresh_tasks + 1
           /\ teams_cache' = teams_cache
           /\ last_cache_update' = last_cache_update
      ]_vars

====
